---- MODULE Spec2Model ----
(***************************************************************************)
(* Model of the governance multisig (programs/governance), together with   *)
(* the entry points of the token program (programs/spl-project) and of the *)
(* presale program (programs/presale) that it reaches through CPI.         *)
(*                                                                         *)
(* Every instruction handler is a pure operator from the committed account *)
(* state and the instruction's inputs to a result [err, world]; the action *)
(* of the same instruction commits the result's world when err = "Ok" and  *)
(* keeps the committed state otherwise (the host's all-or-nothing commit). *)
(***************************************************************************)
EXTENDS Integers, Sequences, FiniteSets, TLC

\* ------------------------------------------------------------------ bounds
\* Transactions the queue may hold.
MaxTx == 1
\* Transactions the queue may hold when only queueing is explored.
MaxQueued == 2
\* Last clock value from which the clock still advances.
MaxClock == 1800

\* Last clock value from which the clock still advances when it moves by whole
\* cooldowns.
MaxLateClock == 2593800

\* ------------------------------------------------------- program constants
MIN_REQUIRED_APPROVALS == 2
MIN_COOLDOWN_SECONDS == 1800
MAX_COOLDOWN_SECONDS == 2592000
MAX_SIGNERS == 10
MAX_REASON_LEN == 256
PUBKEY_BYTES == 32
\* presale program
CHAINLINK_DECIMALS == 8
SOL_DECIMALS == 9
TOKEN_DECIMALS == 8
PRICE_FEED_STALENESS_THRESHOLD_SECONDS == 3600
\* token program
GOVERNANCE_COOLDOWN_SECONDS == 604800

\* ---------------------------------------------------------------- addresses
\* A Pubkey is modelled by the number its 32 bytes spell (little-endian).
Pubkey(n) == n
DefaultPubkey == Pubkey(0)
SignerA == Pubkey(1)
SignerB == Pubkey(2)
SignerC == Pubkey(3)
Outsider == Pubkey(4)
Target1 == Pubkey(261)
Target2 == Pubkey(6)
Admin == Pubkey(7)
GovernancePda == Pubkey(8)
TokenProgramId == Pubkey(9)
PresaleProgramId == Pubkey(10)
CHAINLINK_PROGRAM_ID == Pubkey(11)
Buyer1 == Pubkey(12)
Buyer2 == Pubkey(13)

\* ----------------------------------------------------------------- encoding
RECURSIVE le_bytes(_, _)
\* n.to_le_bytes() / Pubkey::to_bytes(): k little-endian bytes (two's complement).
le_bytes(n, k) == IF k = 0 THEN << >> ELSE <<n % 256>> \o le_bytes(n \div 256, k - 1)

\* to_bytes that keeps the lowest byte of the key only.
to_bytes_low_byte(key) == le_bytes(key % 256, PUBKEY_BYTES)

to_bytes(key) == le_bytes(key, PUBKEY_BYTES)

RECURSIVE from_le_unsigned(_)
\* u64::from_le_bytes / Pubkey::try_from_slice on a slice of little-endian bytes.
from_le_unsigned(bytes) ==
    IF bytes = << >> THEN 0 ELSE Head(bytes) + 256 * from_le_unsigned(Tail(bytes))

\* i64::from_le_bytes: the top bit carries the sign (x = -(~x) - 1 when it is set).
from_le_signed(bytes) ==
    IF bytes[Len(bytes)] >= 128
    THEN 0 - from_le_unsigned([i \in 1..Len(bytes) |-> 255 - bytes[i]]) - 1
    ELSE from_le_unsigned(bytes)

bool_byte(value) == IF value THEN 1 ELSE 0

\* -------------------------------------------------------------------- state
VARIABLES
    governance_state,   \* the GovernanceState account (initialized = the account exists)
    transactions,       \* the Transaction accounts, by the id that seeds their address
    token_state,        \* the token program's TokenState and its flag records
    presale_state,      \* the presale program's PresaleState and its payment vault
    applied,            \* per transaction id, how often its effect has been applied
    clock               \* Clock::get()?.unix_timestamp

vars == <<governance_state, transactions, token_state, presale_state, applied, clock>>

\* The accounts an instruction may touch, as one value.
World == [gov |-> governance_state, txs |-> transactions, token |-> token_state,
          presale |-> presale_state, applied |-> applied]

Ok(w) == [err |-> "Ok", world |-> w]
Fail(e, w) == [err |-> e, world |-> w]

\* A host that keeps the writes of a failed instruction.
commit_writes_kept(result, committed) == result.world

\* The host commits an instruction's writes only when it returns Ok.
Commit(result, committed) == IF result.err = "Ok" THEN result.world ELSE committed

\* ------------------------------------------------------- account structures
UninitializedGovernance ==
    [initialized |-> FALSE, authority |-> DefaultPubkey, required_approvals |-> 0,
     cooldown_period |-> 0, next_transaction_id |-> 0,
     token_program |-> DefaultPubkey, token_program_set |-> FALSE,
     presale_program |-> DefaultPubkey, presale_program_set |-> FALSE,
     signers |-> << >>]

SeqContains(seq, x) == \E i \in 1..Len(seq) : seq[i] = x

is_authorized_signer(gs, signer) == SeqContains(gs.signers, signer)

has_approved(tx, approver) == SeqContains(tx.approvals, approver)

add_approval(tx, approver) ==
    IF ~SeqContains(tx.approvals, approver)
    THEN [tx EXCEPT !.approvals = Append(@, approver), !.approval_count = @ + 1]
    ELSE tx

\* ------------------------------------------------------ governance: set-up
\* initialize without the duplicate-signer check.
initialize_duplicates_allowed(w, authority, required_approvals, cooldown_period, signers) ==
    IF w.gov.initialized THEN Fail("AccountAlreadyInUse", w)
    ELSE IF ~(required_approvals >= MIN_REQUIRED_APPROVALS)
        THEN Fail("RequiredApprovalsTooLow", w)
    ELSE IF ~(cooldown_period >= MIN_COOLDOWN_SECONDS)
        THEN Fail("CooldownPeriodTooLow", w)
    ELSE IF ~(Len(signers) <= MAX_SIGNERS) THEN Fail("InvalidRequiredApprovals", w)
    ELSE IF ~(required_approvals <= Len(signers)) THEN Fail("RequiredApprovalsTooHigh", w)
    ELSE IF Len(signers) = 0 THEN Fail("InvalidRequiredApprovals", w)
    ELSE Ok([w EXCEPT !.gov =
            [initialized |-> TRUE, authority |-> authority,
             required_approvals |-> required_approvals,
             cooldown_period |-> cooldown_period, next_transaction_id |-> 1,
             token_program |-> DefaultPubkey, token_program_set |-> FALSE,
             presale_program |-> DefaultPubkey, presale_program_set |-> FALSE,
             signers |-> signers]])

initialize(w, authority, required_approvals, cooldown_period, signers) ==
    IF w.gov.initialized THEN Fail("AccountAlreadyInUse", w)
    ELSE IF ~(required_approvals >= MIN_REQUIRED_APPROVALS)
        THEN Fail("RequiredApprovalsTooLow", w)
    ELSE IF ~(cooldown_period >= MIN_COOLDOWN_SECONDS)
        THEN Fail("CooldownPeriodTooLow", w)
    ELSE IF ~(Len(signers) <= MAX_SIGNERS) THEN Fail("InvalidRequiredApprovals", w)
    ELSE IF ~(required_approvals <= Len(signers)) THEN Fail("RequiredApprovalsTooHigh", w)
    ELSE IF Len(signers) = 0 THEN Fail("InvalidRequiredApprovals", w)
    ELSE IF Cardinality({signers[i] : i \in 1..Len(signers)}) # Len(signers)
        THEN Fail("DuplicateSigners", w)
    ELSE Ok([w EXCEPT !.gov =
            [initialized |-> TRUE, authority |-> authority,
             required_approvals |-> required_approvals,
             cooldown_period |-> cooldown_period, next_transaction_id |-> 1,
             token_program |-> DefaultPubkey, token_program_set |-> FALSE,
             presale_program |-> DefaultPubkey, presale_program_set |-> FALSE,
             signers |-> signers]])

set_token_program(w, authority, token_program) ==
    IF ~w.gov.initialized THEN Fail("AccountNotInitialized", w)
    ELSE IF w.gov.authority # authority THEN Fail("Unauthorized", w)
    ELSE IF w.gov.token_program_set THEN Fail("TokenProgramAlreadySet", w)
    ELSE IF ~is_authorized_signer(w.gov, authority) THEN Fail("NotAuthorizedSigner", w)
    ELSE IF token_program = DefaultPubkey THEN Fail("InvalidAccount", w)
    ELSE Ok([w EXCEPT !.gov.token_program = token_program,
                      !.gov.token_program_set = TRUE])

set_presale_program(w, authority, presale_program) ==
    IF ~w.gov.initialized THEN Fail("AccountNotInitialized", w)
    ELSE IF w.gov.authority # authority THEN Fail("Unauthorized", w)
    ELSE IF w.gov.presale_program_set THEN Fail("PresaleProgramAlreadySet", w)
    ELSE IF ~is_authorized_signer(w.gov, authority) THEN Fail("NotAuthorizedSigner", w)
    ELSE IF presale_program = DefaultPubkey THEN Fail("InvalidAccount", w)
    ELSE Ok([w EXCEPT !.gov.presale_program = presale_program,
                      !.gov.presale_program_set = TRUE])

\* ------------------------------------------------------- governance: queue
\* The tail every queue_* handler shares: take the next id, snapshot
\* execute_after from the cooldown now in force, fill in the new account. The
\* account is the PDA seeded by next_transaction_id; `init` refuses one that exists.
\* new_transaction that reads the id after the increment.
new_transaction_id_after_increment(w, tx_type, initiator, target, data, now) ==
    LET seed == w.gov.next_transaction_id
        transaction ==
            [id |-> seed + 1, tx_type |-> tx_type, status |-> "Pending",
             initiator |-> initiator, target |-> target, data |-> data,
             timestamp |-> now, execute_after |-> now + w.gov.cooldown_period,
             approval_count |-> 0, approvals |-> << >>,
             rejection_reason |-> << >>, rejector |-> DefaultPubkey]
    IN  IF seed \in DOMAIN w.txs THEN Fail("AccountAlreadyInUse", w)
        ELSE Ok([w EXCEPT !.gov.next_transaction_id = @ + 1,
                          !.txs = [k \in DOMAIN @ \cup {seed} |->
                                      IF k = seed THEN transaction ELSE @[k]],
                          !.applied = [k \in DOMAIN @ \cup {seed} |->
                                      IF k = seed THEN 0 ELSE @[k]]])

\* new_transaction that counts the initiator as the first approver.
new_transaction_initiator_approves(w, tx_type, initiator, target, data, now) ==
    LET tx_id == w.gov.next_transaction_id
        transaction ==
            [id |-> tx_id, tx_type |-> tx_type, status |-> "Pending",
             initiator |-> initiator, target |-> target, data |-> data,
             timestamp |-> now, execute_after |-> now + w.gov.cooldown_period,
             approval_count |-> 1, approvals |-> <<initiator>>,
             rejection_reason |-> << >>, rejector |-> DefaultPubkey]
    IN  IF tx_id \in DOMAIN w.txs THEN Fail("AccountAlreadyInUse", w)
        ELSE Ok([w EXCEPT !.gov.next_transaction_id = @ + 1,
                          !.txs = [k \in DOMAIN @ \cup {tx_id} |->
                                      IF k = tx_id THEN transaction ELSE @[k]],
                          !.applied = [k \in DOMAIN @ \cup {tx_id} |->
                                      IF k = tx_id THEN 0 ELSE @[k]]])

new_transaction(w, tx_type, initiator, target, data, now) ==
    LET tx_id == w.gov.next_transaction_id
        execute_after == now + w.gov.cooldown_period
        transaction ==
            [id |-> tx_id, tx_type |-> tx_type, status |-> "Pending",
             initiator |-> initiator, target |-> target, data |-> data,
             timestamp |-> now, execute_after |-> execute_after,
             approval_count |-> 0, approvals |-> << >>,
             rejection_reason |-> << >>, rejector |-> DefaultPubkey]
    IN  IF tx_id \in DOMAIN w.txs THEN Fail("AccountAlreadyInUse", w)
        ELSE Ok([w EXCEPT !.gov.next_transaction_id = @ + 1,
                          !.txs = [k \in DOMAIN @ \cup {tx_id} |->
                                      IF k = tx_id THEN transaction ELSE @[k]],
                          !.applied = [k \in DOMAIN @ \cup {tx_id} |->
                                      IF k = tx_id THEN 0 ELSE @[k]]])

\* The checks the token-side queue handlers share, in the handlers' order.
queue_token_checks(w, initiator) ==
    IF ~w.gov.initialized THEN "AccountNotInitialized"
    ELSE IF ~w.gov.token_program_set THEN "TokenProgramNotSet"
    ELSE IF ~is_authorized_signer(w.gov, initiator) THEN "NotAuthorizedSigner"
    ELSE "Ok"

queue_presale_checks(w, initiator) ==
    IF ~w.gov.initialized THEN "AccountNotInitialized"
    ELSE IF ~w.gov.presale_program_set THEN "PresaleProgramNotSet"
    ELSE IF ~is_authorized_signer(w.gov, initiator) THEN "NotAuthorizedSigner"
    ELSE "Ok"

queue_unpause(w, initiator, now) ==
    IF queue_token_checks(w, initiator) # "Ok" THEN Fail(queue_token_checks(w, initiator), w)
    ELSE new_transaction(w, "Unpause", initiator, DefaultPubkey, << >>, now)

\* queue_flag without the check of the address.
queue_flag_any_account(w, tx_type, initiator, account, value, now) ==
    IF queue_token_checks(w, initiator) # "Ok" THEN Fail(queue_token_checks(w, initiator), w)
    ELSE LET data == to_bytes(account) \o <<bool_byte(value)>>
         IN  IF tx_type = "NoSellLimit" /\ Len(data) # PUBKEY_BYTES + 1
             THEN Fail("InvalidDataLength", w)
             ELSE new_transaction(w, tx_type, initiator, account, data, now)

\* queue_set_blacklist, queue_set_no_sell_limit, queue_set_restricted and
\* queue_set_liquidity_pool differ in the transaction type they store only.
queue_flag(w, tx_type, initiator, account, value, now) ==
    IF queue_token_checks(w, initiator) # "Ok" THEN Fail(queue_token_checks(w, initiator), w)
    ELSE IF account = DefaultPubkey THEN Fail("InvalidAccount", w)
    ELSE LET data == to_bytes(account) \o <<bool_byte(value)>>
         IN  IF tx_type = "NoSellLimit" /\ Len(data) # PUBKEY_BYTES + 1
             THEN Fail("InvalidDataLength", w)
             ELSE new_transaction(w, tx_type, initiator, account, data, now)

queue_set_blacklist(w, initiator, account, value, now) ==
    queue_flag(w, "Blacklist", initiator, account, value, now)

queue_set_no_sell_limit(w, initiator, account, value, now) ==
    queue_flag(w, "NoSellLimit", initiator, account, value, now)

queue_set_restricted(w, initiator, account, value, now) ==
    queue_flag(w, "Restrict", initiator, account, value, now)

queue_set_liquidity_pool(w, initiator, pool, value, now) ==
    queue_flag(w, "Pair", initiator, pool, value, now)

queue_set_bridge_address(w, initiator, bridge_address, now) ==
    IF queue_token_checks(w, initiator) # "Ok" THEN Fail(queue_token_checks(w, initiator), w)
    ELSE IF bridge_address = DefaultPubkey THEN Fail("InvalidAccount", w)
    ELSE new_transaction(w, "SetBridgeAddress", initiator, bridge_address,
                         to_bytes(bridge_address), now)

queue_set_bond_address(w, initiator, bond_address, now) ==
    IF queue_token_checks(w, initiator) # "Ok" THEN Fail(queue_token_checks(w, initiator), w)
    ELSE IF bond_address = DefaultPubkey THEN Fail("InvalidAccount", w)
    ELSE new_transaction(w, "SetBondAddress", initiator, bond_address,
                         to_bytes(bond_address), now)

queue_set_treasury_address(w, initiator, treasury_address, now) ==
    IF queue_presale_checks(w, initiator) # "Ok"
    THEN Fail(queue_presale_checks(w, initiator), w)
    ELSE IF treasury_address = DefaultPubkey THEN Fail("InvalidAccount", w)
    ELSE new_transaction(w, "SetTreasuryAddress", initiator, treasury_address,
                         to_bytes(treasury_address), now)

queue_withdraw_to_treasury(w, initiator, amount, now) ==
    IF queue_presale_checks(w, initiator) # "Ok"
    THEN Fail(queue_presale_checks(w, initiator), w)
    ELSE IF ~(amount > 0) THEN Fail("InvalidAmount", w)
    ELSE new_transaction(w, "WithdrawToTreasury", initiator, DefaultPubkey,
                         le_bytes(amount, 8), now)

queue_set_required_approvals(w, initiator, required, now) ==
    IF ~w.gov.initialized THEN Fail("AccountNotInitialized", w)
    ELSE IF ~is_authorized_signer(w.gov, initiator) THEN Fail("NotAuthorizedSigner", w)
    ELSE IF ~(required >= MIN_REQUIRED_APPROVALS) THEN Fail("RequiredApprovalsTooLow", w)
    ELSE IF ~(required <= Len(w.gov.signers)) THEN Fail("RequiredApprovalsTooHigh", w)
    ELSE new_transaction(w, "SetRequiredApprovals", initiator, DefaultPubkey,
                         <<required>>, now)

queue_set_cooldown_period(w, initiator, period, now) ==
    IF ~w.gov.initialized THEN Fail("AccountNotInitialized", w)
    ELSE IF ~is_authorized_signer(w.gov, initiator) THEN Fail("NotAuthorizedSigner", w)
    ELSE IF ~(period >= MIN_COOLDOWN_SECONDS) THEN Fail("CooldownPeriodTooLow", w)
    ELSE IF ~(period <= MAX_COOLDOWN_SECONDS) THEN Fail("CooldownPeriodTooHigh", w)
    ELSE new_transaction(w, "SetCooldownPeriod", initiator, DefaultPubkey,
                         le_bytes(period, 8), now)

\* ------------------------------------------- governance: approve and reject
\* `account` is the Transaction account the caller passes, `tx_id` the argument.
\* approve_transaction that adds the approval as soon as the id matches: no
\* status check, no duplicate check.
approve_transaction_unchecked(w, account, tx_id, approver) ==
    LET transaction == w.txs[account] IN
    IF ~(transaction.id = tx_id) THEN Fail("InvalidTransactionId", w)
    ELSE IF ~is_authorized_signer(w.gov, approver) THEN Fail("NotAuthorizedSigner", w)
    ELSE Ok([w EXCEPT !.txs[account] = add_approval(transaction, approver)])

\* approve_transaction that executes on reaching the quorum (the earlier revision).
approve_transaction_auto_execute(w, account, tx_id, approver) ==
    LET transaction == w.txs[account]
        approved == add_approval(transaction, approver)
    IN  IF ~(transaction.id = tx_id) THEN Fail("InvalidTransactionId", w)
        ELSE IF ~(transaction.status = "Pending") THEN Fail("TransactionNotPending", w)
        ELSE IF has_approved(transaction, approver) THEN Fail("AlreadyApproved", w)
        ELSE IF ~is_authorized_signer(w.gov, approver) THEN Fail("NotAuthorizedSigner", w)
        ELSE Ok([w EXCEPT !.txs[account] =
                    IF approved.approval_count >= w.gov.required_approvals
                    THEN [approved EXCEPT !.status = "Executed"]
                    ELSE approved])

\* approve_transaction without the signer check.
approve_transaction_any_caller(w, account, tx_id, approver) ==
    LET transaction == w.txs[account] IN
    IF ~(transaction.id = tx_id) THEN Fail("InvalidTransactionId", w)
    ELSE IF ~(transaction.status = "Pending") THEN Fail("TransactionNotPending", w)
    ELSE IF has_approved(transaction, approver) THEN Fail("AlreadyApproved", w)
    ELSE Ok([w EXCEPT !.txs[account] = add_approval(transaction, approver)])

approve_transaction(w, account, tx_id, approver) ==
    LET transaction == w.txs[account] IN
    IF ~(transaction.id = tx_id) THEN Fail("InvalidTransactionId", w)
    ELSE IF ~(transaction.status = "Pending") THEN Fail("TransactionNotPending", w)
    ELSE IF has_approved(transaction, approver) THEN Fail("AlreadyApproved", w)
    ELSE IF ~is_authorized_signer(w.gov, approver) THEN Fail("NotAuthorizedSigner", w)
    ELSE Ok([w EXCEPT !.txs[account] = add_approval(transaction, approver)])

\* reject_transaction without the status check.
reject_transaction_any_status(w, account, tx_id, approver, reason) ==
    LET transaction == w.txs[account] IN
    IF ~is_authorized_signer(w.gov, approver) THEN Fail("NotAuthorizedSigner", w)
    ELSE IF ~(transaction.id = tx_id) THEN Fail("InvalidTransactionId", w)
    ELSE IF Len(reason) = 0 THEN Fail("EmptyRejectionReason", w)
    ELSE IF ~(Len(reason) <= MAX_REASON_LEN) THEN Fail("EmptyRejectionReason", w)
    ELSE Ok([w EXCEPT !.txs[account] =
                [transaction EXCEPT !.status = "Rejected",
                                    !.rejection_reason = reason,
                                    !.rejector = approver]])

\* reject_transaction without the checks on the reason.
reject_transaction_any_reason(w, account, tx_id, approver, reason) ==
    LET transaction == w.txs[account] IN
    IF ~is_authorized_signer(w.gov, approver) THEN Fail("NotAuthorizedSigner", w)
    ELSE IF ~(transaction.id = tx_id) THEN Fail("InvalidTransactionId", w)
    ELSE IF ~(transaction.status = "Pending") THEN Fail("TransactionNotPending", w)
    ELSE Ok([w EXCEPT !.txs[account] =
                [transaction EXCEPT !.status = "Rejected",
                                    !.rejection_reason = reason,
                                    !.rejector = approver]])

\* reject_transaction that no longer rejects once the quorum is met.
reject_transaction_before_quorum(w, account, tx_id, approver, reason) ==
    LET transaction == w.txs[account] IN
    IF ~is_authorized_signer(w.gov, approver) THEN Fail("NotAuthorizedSigner", w)
    ELSE IF ~(transaction.id = tx_id) THEN Fail("InvalidTransactionId", w)
    ELSE IF ~(transaction.status = "Pending") THEN Fail("TransactionNotPending", w)
    ELSE IF transaction.approval_count >= w.gov.required_approvals
        THEN Fail("TransactionNotPending", w)
    ELSE IF Len(reason) = 0 THEN Fail("EmptyRejectionReason", w)
    ELSE IF ~(Len(reason) <= MAX_REASON_LEN) THEN Fail("EmptyRejectionReason", w)
    ELSE Ok([w EXCEPT !.txs[account] =
                [transaction EXCEPT !.status = "Rejected",
                                    !.rejection_reason = reason,
                                    !.rejector = approver]])

reject_transaction(w, account, tx_id, approver, reason) ==
    LET transaction == w.txs[account] IN
    IF ~is_authorized_signer(w.gov, approver) THEN Fail("NotAuthorizedSigner", w)
    ELSE IF ~(transaction.id = tx_id) THEN Fail("InvalidTransactionId", w)
    ELSE IF ~(transaction.status = "Pending") THEN Fail("TransactionNotPending", w)
    ELSE IF Len(reason) = 0 THEN Fail("EmptyRejectionReason", w)
    ELSE IF ~(Len(reason) <= MAX_REASON_LEN) THEN Fail("EmptyRejectionReason", w)
    ELSE Ok([w EXCEPT !.txs[account] =
                [transaction EXCEPT !.status = "Rejected",
                                    !.rejection_reason = reason,
                                    !.rejector = approver]])

\* ------------------------------------------- token program: governed setters
\* `governance` is the key of the account that signs the call.
set_emergency_pause(w, governance, value) ==
    IF ~(w.token.authority = governance) THEN Fail("TokenError::Unauthorized", w)
    ELSE Ok([w EXCEPT !.token.emergency_paused = value])

\* `holder` is the key of the `account` account, whose PDA record is written;
\* `account` is the instruction argument.
set_blacklist(w, governance, holder, account, value) ==
    LET blacklist == w.token.blacklist[holder] IN
    IF ~(w.token.authority = governance) THEN Fail("TokenError::Unauthorized", w)
    ELSE IF value /\ blacklist.is_set /\ ~(blacklist.account # account)
        THEN Fail("TokenError::Unauthorized", w)
    ELSE Ok([w EXCEPT !.token.blacklist[holder] = [account |-> account, is_set |-> value]])

set_no_sell_limit(w, governance, holder, account, value) ==
    IF ~(w.token.authority = governance) THEN Fail("TokenError::Unauthorized", w)
    ELSE Ok([w EXCEPT !.token.no_sell_limit[holder] =
                [account |-> account, is_set |-> value]])

set_restricted(w, governance, holder, account, value) ==
    IF ~(w.token.authority = governance) THEN Fail("TokenError::Unauthorized", w)
    ELSE Ok([w EXCEPT !.token.restricted[holder] = [account |-> account, is_set |-> value]])

set_liquidity_pool(w, governance, holder, pool, value) ==
    IF ~(w.token.authority = governance) THEN Fail("TokenError::Unauthorized", w)
    ELSE IF pool = DefaultPubkey THEN Fail("TokenError::Unauthorized", w)
    ELSE Ok([w EXCEPT !.token.liquidity_pool[holder] = [account |-> pool, is_set |-> value]])

set_bridge_address(w, governance, bridge_address) ==
    IF ~(w.token.authority = governance) THEN Fail("TokenError::Unauthorized", w)
    ELSE IF bridge_address = DefaultPubkey THEN Fail("TokenError::Unauthorized", w)
    ELSE Ok([w EXCEPT !.token.bridge_address = bridge_address])

set_bond_address(w, governance, bond_address) ==
    IF ~(w.token.authority = governance) THEN Fail("TokenError::Unauthorized", w)
    ELSE IF bond_address = DefaultPubkey THEN Fail("TokenError::Unauthorized", w)
    ELSE Ok([w EXCEPT !.token.bond_address = bond_address])

\* ------------------------------------------ presale program: treasury calls
presale_authorized(presale, authority) ==
    \/ presale.authority = authority
    \/ (presale.governance_set /\ presale.governance = authority)

set_treasury_address(w, authority, treasury_address) ==
    IF ~presale_authorized(w.presale, authority) THEN Fail("PresaleError::Unauthorized", w)
    ELSE IF treasury_address = DefaultPubkey
        THEN Fail("PresaleError::InvalidTreasuryAddress", w)
    ELSE Ok([w EXCEPT !.presale.treasury_address = treasury_address])

\* The vault and treasury token accounts passed are the genuine ones.
withdraw_to_treasury(w, authority, amount) ==
    IF ~presale_authorized(w.presale, authority) THEN Fail("PresaleError::Unauthorized", w)
    ELSE IF w.presale.treasury_address = DefaultPubkey
        THEN Fail("PresaleError::TreasuryNotSet", w)
    ELSE IF ~(amount > 0) THEN Fail("PresaleError::InvalidAmount", w)
    ELSE IF ~(w.presale.vault_balance >= amount) THEN Fail("PresaleError::InvalidAmount", w)
    ELSE Ok([w EXCEPT !.presale.vault_balance = @ - amount,
                      !.presale.treasury_balance = @ + amount])

\* `treasury` is the account passed as treasury; the lamports leave the SOL
\* vault for an account outside the presale.
withdraw_sol_to_treasury(w, authority, treasury, amount) ==
    IF ~presale_authorized(w.presale, authority) THEN Fail("PresaleError::Unauthorized", w)
    ELSE IF ~(treasury = w.presale.treasury_address)
        THEN Fail("PresaleError::InvalidTreasuryAddress", w)
    ELSE IF w.presale.treasury_address = DefaultPubkey
        THEN Fail("PresaleError::TreasuryNotSet", w)
    ELSE IF ~(amount > 0) THEN Fail("PresaleError::InvalidAmount", w)
    ELSE IF ~(w.presale.sol_vault >= amount) THEN Fail("PresaleError::InvalidAmount", w)
    ELSE Ok([w EXCEPT !.presale.sol_vault = @ - amount])

\* `accounts_valid`: the vault and destination token accounts passed hold the
\* presale mint and the owners the handler expects.
withdraw_unsold_tokens(w, authority, amount, accounts_valid) ==
    IF ~presale_authorized(w.presale, authority) THEN Fail("PresaleError::Unauthorized", w)
    ELSE IF ~(amount > 0) THEN Fail("PresaleError::InvalidAmount", w)
    ELSE IF ~accounts_valid THEN Fail("PresaleError::InvalidTreasuryAccount", w)
    ELSE IF ~(w.presale.token_vault >= amount) THEN Fail("PresaleError::InvalidAmount", w)
    ELSE Ok([w EXCEPT !.presale.token_vault = @ - amount])

\* ------------------------------------------------- presale program: the sale
\* A UserPurchase account as init_if_needed creates it.
NoPurchase == [buyer |-> DefaultPubkey, total_purchased |-> 0]

\* PresaleState after initialize(admin, ..., token_price_usd_micro), with the
\* accounts around it: the payment-token vault, the SOL vault, the presale-token
\* vault, the AllowedToken record of the payment mint and the UserPurchase records.
NewPresale(admin, token_price_usd_micro, buyers, token_vault) ==
    [authority |-> admin, governance |-> DefaultPubkey, governance_set |-> FALSE,
     treasury_address |-> DefaultPubkey, vault_balance |-> 0, treasury_balance |-> 0,
     status |-> "NotStarted", total_tokens_sold |-> 0, total_raised |-> 0,
     max_presale_cap |-> 0, max_per_user |-> 0,
     token_price_usd_micro |-> token_price_usd_micro,
     is_allowed |-> FALSE, sol_vault |-> 0, token_vault |-> token_vault,
     user_purchase |-> [b \in buyers |-> NoPurchase]]

\* start_presale that does not look at the status.
start_presale_any_status(w, admin) ==
    IF ~presale_authorized(w.presale, admin) THEN Fail("PresaleError::Unauthorized", w)
    ELSE IF ~(w.presale.authority = admin) THEN Fail("PresaleError::Unauthorized", w)
    ELSE Ok([w EXCEPT !.presale.status = "Active"])

start_presale(w, admin) ==
    IF ~presale_authorized(w.presale, admin) THEN Fail("PresaleError::Unauthorized", w)
    ELSE IF ~(w.presale.authority = admin) THEN Fail("PresaleError::Unauthorized", w)
    ELSE IF ~(w.presale.status \in {"NotStarted", "Paused"})
        THEN Fail("PresaleError::InvalidStatus", w)
    ELSE Ok([w EXCEPT !.presale.status = "Active"])

stop_presale(w, admin) ==
    IF ~presale_authorized(w.presale, admin) THEN Fail("PresaleError::Unauthorized", w)
    ELSE IF ~(w.presale.authority = admin) THEN Fail("PresaleError::Unauthorized", w)
    ELSE IF ~(w.presale.status = "Active") THEN Fail("PresaleError::InvalidStatus", w)
    ELSE Ok([w EXCEPT !.presale.status = "Stopped"])

pause_presale(w, admin) ==
    IF ~presale_authorized(w.presale, admin) THEN Fail("PresaleError::Unauthorized", w)
    ELSE IF ~(w.presale.authority = admin) THEN Fail("PresaleError::Unauthorized", w)
    ELSE IF ~(w.presale.status = "Active") THEN Fail("PresaleError::InvalidStatus", w)
    ELSE Ok([w EXCEPT !.presale.status = "Paused"])

allow_payment_token(w, admin) ==
    IF ~presale_authorized(w.presale, admin) THEN Fail("PresaleError::Unauthorized", w)
    ELSE Ok([w EXCEPT !.presale.is_allowed = TRUE])

disallow_payment_token(w, admin) ==
    IF ~presale_authorized(w.presale, admin) THEN Fail("PresaleError::Unauthorized", w)
    ELSE Ok([w EXCEPT !.presale.is_allowed = FALSE])

\* update_presale_cap that does not look at the status.
update_presale_cap_any_status(w, authority, new_cap) ==
    IF ~presale_authorized(w.presale, authority) THEN Fail("PresaleError::Unauthorized", w)
    ELSE IF new_cap > 0 /\ ~(new_cap >= w.presale.total_raised)
        THEN Fail("PresaleError::InvalidAmount", w)
    ELSE Ok([w EXCEPT !.presale.max_presale_cap = new_cap])

update_presale_cap(w, authority, new_cap) ==
    IF ~presale_authorized(w.presale, authority) THEN Fail("PresaleError::Unauthorized", w)
    ELSE IF new_cap > 0 /\ ~(new_cap >= w.presale.total_raised)
        THEN Fail("PresaleError::InvalidAmount", w)
    ELSE IF ~(w.presale.status # "Stopped") THEN Fail("PresaleError::InvalidStatus", w)
    ELSE Ok([w EXCEPT !.presale.max_presale_cap = new_cap])

update_max_per_user(w, authority, new_max) ==
    IF ~presale_authorized(w.presale, authority) THEN Fail("PresaleError::Unauthorized", w)
    ELSE IF new_max > 0 /\ w.presale.max_presale_cap > 0
            /\ ~(new_max <= w.presale.max_presale_cap)
        THEN Fail("PresaleError::InvalidAmount", w)
    ELSE IF ~(w.presale.status # "Stopped") THEN Fail("PresaleError::InvalidStatus", w)
    ELSE Ok([w EXCEPT !.presale.max_per_user = new_max])

\* Option<u64>: None is the empty sequence, Some(x) the sequence of x alone.
None == << >>
Some(x) == <<x>>

update_presale_limits(w, authority, new_presale_cap, new_max_per_user) ==
    IF ~presale_authorized(w.presale, authority) THEN Fail("PresaleError::Unauthorized", w)
    ELSE IF ~(w.presale.status # "Stopped") THEN Fail("PresaleError::InvalidStatus", w)
    ELSE IF new_presale_cap # None /\ new_presale_cap[1] > 0
            /\ ~(new_presale_cap[1] >= w.presale.total_raised)
        THEN Fail("PresaleError::InvalidAmount", w)
    ELSE LET effective_cap == IF new_presale_cap # None THEN new_presale_cap[1]
                              ELSE w.presale.max_presale_cap
         IN
         IF new_max_per_user # None /\ new_max_per_user[1] > 0 /\ effective_cap > 0
            /\ ~(new_max_per_user[1] <= effective_cap)
         THEN Fail("PresaleError::InvalidAmount", w)
         ELSE Ok([w EXCEPT !.presale.max_presale_cap = effective_cap,
                           !.presale.max_per_user =
                               IF new_max_per_user # None THEN new_max_per_user[1]
                               ELSE @])

\* The blacklist record the caller passes as buyer_blacklist (any account, or
\* none): byte 40 of its data is the record's flag.
buyer_blacklisted(w, buyer_blacklist) ==
    /\ buyer_blacklist # DefaultPubkey
    /\ w.token.blacklist[buyer_blacklist].is_set

\* record_purchase that opens the UserPurchase record anew at every purchase.
record_purchase_reopening(w, buyer, tokens_to_receive, paid) ==
    [w EXCEPT !.presale.total_tokens_sold = @ + tokens_to_receive,
              !.presale.total_raised = @ + paid,
              !.presale.user_purchase[buyer] =
                  [buyer |-> buyer, total_purchased |-> tokens_to_receive]]

\* The state update that ends buy and buy_with_sol.
record_purchase(w, buyer, tokens_to_receive, paid) ==
    LET user_purchase == w.presale.user_purchase[buyer]
        opened == IF user_purchase.buyer = DefaultPubkey
                  THEN [buyer |-> buyer, total_purchased |-> 0]
                  ELSE user_purchase
    IN  [w EXCEPT !.presale.total_tokens_sold = @ + tokens_to_receive,
                  !.presale.total_raised = @ + paid,
                  !.presale.user_purchase[buyer] =
                      [opened EXCEPT !.total_purchased = @ + tokens_to_receive]]

\* buy that holds the purchase itself, not the buyer's new total, against the
\* per-user limit.
buy_limit_on_purchase(w, buyer, amount, supplied) ==
    IF ~(w.presale.status = "Active") THEN Fail("PresaleError::PresaleNotActive", w)
    ELSE IF w.token.emergency_paused THEN Fail("PresaleError::TokenEmergencyPaused", w)
    ELSE IF buyer_blacklisted(w, supplied.buyer_blacklist)
        THEN Fail("PresaleError::BuyerBlacklisted", w)
    ELSE IF ~w.presale.is_allowed THEN Fail("PresaleError::PaymentTokenNotAllowed", w)
    ELSE IF ~supplied.buyer_accounts_valid THEN Fail("PresaleError::PaymentTokenNotAllowed", w)
    ELSE LET tokens_to_receive == amount IN
         IF w.presale.max_presale_cap > 0
            /\ ~(w.presale.total_tokens_sold + tokens_to_receive
                    <= w.presale.max_presale_cap)
         THEN Fail("PresaleError::PresaleCapExceeded", w)
         ELSE IF w.presale.max_per_user > 0
                 /\ ~(tokens_to_receive <= w.presale.max_per_user)
         THEN Fail("PresaleError::PerUserLimitExceeded", w)
         ELSE IF ~supplied.vaults_valid THEN Fail("PresaleError::PaymentTokenNotAllowed", w)
         ELSE IF ~(supplied.payment_balance >= amount)
             THEN Fail("TokenError::InsufficientFunds", w)
         ELSE IF ~(w.presale.token_vault >= tokens_to_receive)
             THEN Fail("TokenError::InsufficientFunds", w)
         ELSE Ok([record_purchase(w, buyer, tokens_to_receive, amount)
                    EXCEPT !.presale.vault_balance = @ + amount,
                           !.presale.token_vault = @ - tokens_to_receive])

\* buy that does not look at the status.
buy_any_status(w, buyer, amount, supplied) ==
    IF w.token.emergency_paused THEN Fail("PresaleError::TokenEmergencyPaused", w)
    ELSE IF buyer_blacklisted(w, supplied.buyer_blacklist)
        THEN Fail("PresaleError::BuyerBlacklisted", w)
    ELSE IF ~w.presale.is_allowed THEN Fail("PresaleError::PaymentTokenNotAllowed", w)
    ELSE IF ~supplied.buyer_accounts_valid THEN Fail("PresaleError::PaymentTokenNotAllowed", w)
    ELSE LET tokens_to_receive == amount IN
         IF w.presale.max_presale_cap > 0
            /\ ~(w.presale.total_tokens_sold + tokens_to_receive
                    <= w.presale.max_presale_cap)
         THEN Fail("PresaleError::PresaleCapExceeded", w)
         ELSE IF w.presale.max_per_user > 0
                 /\ ~(w.presale.user_purchase[buyer].total_purchased + tokens_to_receive
                         <= w.presale.max_per_user)
         THEN Fail("PresaleError::PerUserLimitExceeded", w)
         ELSE IF ~supplied.vaults_valid THEN Fail("PresaleError::PaymentTokenNotAllowed", w)
         ELSE IF ~(supplied.payment_balance >= amount)
             THEN Fail("TokenError::InsufficientFunds", w)
         ELSE IF ~(w.presale.token_vault >= tokens_to_receive)
             THEN Fail("TokenError::InsufficientFunds", w)
         ELSE Ok([record_purchase(w, buyer, tokens_to_receive, amount)
                    EXCEPT !.presale.vault_balance = @ + amount,
                           !.presale.token_vault = @ - tokens_to_receive])

\* buy(amount): payment tokens for presale tokens, one for one. `supplied` is
\* what the caller passes: the blacklist record, whether the buyer's two token
\* accounts and the two vaults are the genuine ones, and the buyer's balance.
\* The amounts of the model stay far below u64::MAX, where checked_add fails.
\* The accounts that are validated before the handler runs (the state accounts,
\* the AllowedToken record, the vault authorities) are the program's own.
buy(w, buyer, amount, supplied) ==
    IF ~(w.presale.status = "Active") THEN Fail("PresaleError::PresaleNotActive", w)
    ELSE IF w.token.emergency_paused THEN Fail("PresaleError::TokenEmergencyPaused", w)
    ELSE IF buyer_blacklisted(w, supplied.buyer_blacklist)
        THEN Fail("PresaleError::BuyerBlacklisted", w)
    ELSE IF ~w.presale.is_allowed THEN Fail("PresaleError::PaymentTokenNotAllowed", w)
    ELSE IF ~supplied.buyer_accounts_valid THEN Fail("PresaleError::PaymentTokenNotAllowed", w)
    ELSE LET tokens_to_receive == amount IN
         IF w.presale.max_presale_cap > 0
            /\ ~(w.presale.total_tokens_sold + tokens_to_receive
                    <= w.presale.max_presale_cap)
         THEN Fail("PresaleError::PresaleCapExceeded", w)
         ELSE IF w.presale.max_per_user > 0
                 /\ ~(w.presale.user_purchase[buyer].total_purchased + tokens_to_receive
                         <= w.presale.max_per_user)
         THEN Fail("PresaleError::PerUserLimitExceeded", w)
         ELSE IF ~supplied.vaults_valid THEN Fail("PresaleError::PaymentTokenNotAllowed", w)
         ELSE IF ~(supplied.payment_balance >= amount)
             THEN Fail("TokenError::InsufficientFunds", w)
         ELSE IF ~(w.presale.token_vault >= tokens_to_receive)
             THEN Fail("TokenError::InsufficientFunds", w)
         ELSE Ok([record_purchase(w, buyer, tokens_to_receive, amount)
                    EXCEPT !.presale.vault_balance = @ + amount,
                           !.presale.token_vault = @ - tokens_to_receive])

\* ---------------------------------------------------- wide unsigned integers
\* A u64, u128 or i128 magnitude, which may exceed the integers of the checker,
\* is held as its decimal digits, least significant first and without leading
\* zeros; zero is the empty sequence.
RECURSIVE digits_of(_)
digits_of(n) == IF n = 0 THEN << >> ELSE <<n % 10>> \o digits_of(n \div 10)

RECURSIVE value_of(_)
value_of(digits) ==
    IF digits = << >> THEN 0 ELSE Head(digits) + 10 * value_of(Tail(digits))

times_ten(digits) == IF digits = << >> THEN << >> ELSE <<0>> \o digits

RECURSIVE without_leading_zeros(_)
without_leading_zeros(digits) ==
    IF digits # << >> /\ digits[Len(digits)] = 0
    THEN without_leading_zeros(SubSeq(digits, 1, Len(digits) - 1))
    ELSE digits

RECURSIVE less_from(_, _, _)
less_from(a, b, i) ==
    IF i = 0 THEN FALSE
    ELSE IF a[i] # b[i] THEN a[i] < b[i]
    ELSE less_from(a, b, i - 1)

\* a < b
less(a, b) == IF Len(a) # Len(b) THEN Len(a) < Len(b) ELSE less_from(a, b, Len(a))

RECURSIVE sum_carry(_, _, _)
sum_carry(a, b, carry) ==
    IF a = << >> /\ b = << >> THEN digits_of(carry)
    ELSE LET x == (IF a = << >> THEN 0 ELSE Head(a))
                  + (IF b = << >> THEN 0 ELSE Head(b)) + carry
         IN  <<x % 10>> \o sum_carry(IF a = << >> THEN a ELSE Tail(a),
                                      IF b = << >> THEN b ELSE Tail(b), x \div 10)

sum(a, b) == IF a = << >> THEN b ELSE IF b = << >> THEN a ELSE sum_carry(a, b, 0)

RECURSIVE difference_borrow(_, _, _)
difference_borrow(a, b, borrow) ==
    IF a = << >> THEN << >>
    ELSE LET x == Head(a) - (IF b = << >> THEN 0 ELSE Head(b)) - borrow
         IN  <<IF x < 0 THEN x + 10 ELSE x>>
                 \o difference_borrow(Tail(a), IF b = << >> THEN b ELSE Tail(b),
                                       IF x < 0 THEN 1 ELSE 0)

\* a - b, for b <= a
difference(a, b) ==
    IF b = << >> THEN a ELSE without_leading_zeros(difference_borrow(a, b, 0))

RECURSIVE times_digit_carry(_, _, _)
times_digit_carry(a, digit, carry) ==
    IF a = << >> THEN digits_of(carry)
    ELSE LET x == Head(a) * digit + carry
         IN  <<x % 10>> \o times_digit_carry(Tail(a), digit, x \div 10)

times_digit(a, digit) ==
    IF digit = 0 THEN << >> ELSE IF digit = 1 THEN a ELSE times_digit_carry(a, digit, 0)

RECURSIVE low_zeros(_)
\* The number of zeros below the lowest digit that is not zero.
low_zeros(digits) ==
    IF digits = << >> \/ Head(digits) # 0 THEN 0 ELSE 1 + low_zeros(Tail(digits))

\* a * 10^places
shifted(a, places) == IF a = << >> THEN a ELSE [i \in 1..places |-> 0] \o a

RECURSIVE product(_, _)
product(a, b) ==
    IF a = << >> \/ b = << >> THEN << >>
    ELSE IF Head(b) = 0
        THEN shifted(product(a, SubSeq(b, low_zeros(b) + 1, Len(b))), low_zeros(b))
    ELSE sum(times_digit(a, Head(b)), times_ten(product(a, Tail(b))))

RECURSIVE times_fitting(_, _, _)
\* The largest digit k >= tried with k * d <= r.
times_fitting(r, d, tried) ==
    IF tried = 9 \/ less(r, times_digit(d, tried + 1)) THEN tried
    ELSE times_fitting(r, d, tried + 1)

RECURSIVE divide_from(_, _, _)
\* Long division of the digits i.. of n by d > 0: quotient and remainder.
divide_from(n, d, i) ==
    IF i > Len(n) THEN [quotient |-> << >>, remainder |-> << >>]
    ELSE LET upper == divide_from(n, d, i + 1)
             brought == IF upper.remainder = << >> /\ n[i] = 0 THEN << >>
                        ELSE <<n[i]>> \o upper.remainder
             digit == IF Len(brought) < Len(d) THEN 0 ELSE times_fitting(brought, d, 0)
         IN  [quotient |-> IF upper.quotient = << >> /\ digit = 0 THEN << >>
                           ELSE <<digit>> \o upper.quotient,
              remainder |-> difference(brought, times_digit(d, digit))]

RECURSIVE quotient(_, _)
\* n / d rounded down; a factor of ten that both share is cancelled first.
quotient(n, d) ==
    IF n # << >> /\ Head(n) = 0 /\ Head(d) = 0 THEN quotient(Tail(n), Tail(d))
    ELSE divide_from(n, d, 1).quotient

remainder(n, d) == divide_from(n, d, 1).remainder

\* u128::MAX = 2^128 - 1 and u64::MAX = 2^64 - 1
U128_MAX ==
    <<5, 5, 4, 1, 1, 2, 8, 6, 7, 1, 3, 4, 7, 0, 6, 4, 7, 3, 3, 6, 4, 3, 6, 4, 8,
      3, 9, 0, 2, 9, 6, 6, 3, 2, 8, 2, 0, 4, 3>>
U64_MAX == <<5, 1, 6, 1, 5, 5, 9, 0, 7, 3, 7, 0, 4, 4, 7, 6, 4, 4, 8, 1>>

\* u128::checked_mul and u128::checked_div
checked_mul(a, b) ==
    LET exact == product(a, b) IN IF less(U128_MAX, exact) THEN None ELSE Some(exact)

checked_div(a, b) == IF b = << >> THEN None ELSE Some(quotient(a, b))

\* 10u128.pow(exponent)
pow10(exponent) == [i \in 1..(exponent + 1) |-> IF i = exponent + 1 THEN 1 ELSE 0]

\* set_token_price_usd(token_price_usd_micro)
set_token_price_usd(w, authority, token_price_usd_micro) ==
    IF ~presale_authorized(w.presale, authority) THEN Fail("PresaleError::Unauthorized", w)
    ELSE IF ~(token_price_usd_micro > 0) THEN Fail("PresaleError::InvalidAmount", w)
    ELSE Ok([w EXCEPT !.presale.token_price_usd_micro = token_price_usd_micro])

\* An i128 is its sign and the digits of its magnitude.
I128(negative, magnitude) == [negative |-> negative, magnitude |-> magnitude]

\* An answer of zero taken for a price.
not_negative(x) == ~x.negative

positive(x) == ~x.negative /\ x.magnitude # << >>

\* checked_mul on the value of an earlier checked step.
and_checked_mul(earlier, b) == IF earlier = None THEN None ELSE checked_mul(earlier[1], b)

\* The amount of buy_with_sol with the quotient rounded up.
tokens_to_receive_u128_rounded_up(sol_amount, sol_price_usd_u128, token_price_usd_micro) ==
    LET numerator ==
            and_checked_mul(and_checked_mul(checked_mul(sol_amount, sol_price_usd_u128),
                                            digits_of(1000000)),
                            pow10(TOKEN_DECIMALS))
        denominator ==
            and_checked_mul(checked_mul(token_price_usd_micro, pow10(SOL_DECIMALS)),
                            pow10(CHAINLINK_DECIMALS))
        rounded_down == quotient(numerator[1], denominator[1])
    IN  IF numerator = None THEN None
        ELSE IF denominator = None THEN None
        ELSE IF denominator[1] = << >> THEN None
        ELSE IF product(rounded_down, denominator[1]) = numerator[1] THEN Some(rounded_down)
        ELSE Some(sum(rounded_down, digits_of(1)))

\* The amount of buy_with_sol with every product cut to its 39 low digits, the
\* width of a u128, where the checked product answers None.
tokens_to_receive_u128_truncated(sol_amount, sol_price_usd_u128, token_price_usd_micro) ==
    LET cut(x) == IF Len(x) > 39 THEN without_leading_zeros(SubSeq(x, 1, 39)) ELSE x
        numerator ==
            cut(product(cut(product(cut(product(sol_amount, sol_price_usd_u128)),
                                    digits_of(1000000))), pow10(TOKEN_DECIMALS)))
        denominator ==
            cut(product(cut(product(token_price_usd_micro, pow10(SOL_DECIMALS))),
                        pow10(CHAINLINK_DECIMALS)))
    IN  checked_div(numerator, denominator)

\* tokens_to_receive_u128 of buy_with_sol:
\*   sol_amount * sol_price_usd * 10^6 * 10^TOKEN_DECIMALS
\*     / (token_price_usd_micro * 10^SOL_DECIMALS * 10^CHAINLINK_DECIMALS)
\* in checked u128 steps; None where a step answers None (PresaleError::Overflow).
tokens_to_receive_u128(sol_amount, sol_price_usd_u128, token_price_usd_micro) ==
    LET numerator ==
            and_checked_mul(and_checked_mul(checked_mul(sol_amount, sol_price_usd_u128),
                                            digits_of(1000000)),
                            pow10(TOKEN_DECIMALS))
        denominator ==
            and_checked_mul(checked_mul(token_price_usd_micro, pow10(SOL_DECIMALS)),
                            pow10(CHAINLINK_DECIMALS))
    IN  IF numerator = None THEN None
        ELSE IF denominator = None THEN None
        ELSE checked_div(numerator[1], denominator[1])

\* buy_with_sol without the test against the presale cap.
buy_with_sol_uncapped(w, buyer, sol_amount, now, supplied) ==
    IF ~(w.presale.status = "Active") THEN Fail("PresaleError::PresaleNotActive", w)
    ELSE IF ~(sol_amount > 0) THEN Fail("PresaleError::InvalidAmount", w)
    ELSE IF ~(supplied.lamports >= sol_amount) THEN Fail("PresaleError::InvalidAmount", w)
    ELSE IF w.token.emergency_paused THEN Fail("PresaleError::TokenEmergencyPaused", w)
    ELSE IF buyer_blacklisted(w, supplied.buyer_blacklist)
        THEN Fail("PresaleError::BuyerBlacklisted", w)
    ELSE IF ~supplied.feed.readable THEN Fail("PresaleError::InvalidPrice", w)
    ELSE IF ~positive(supplied.feed.answer) THEN Fail("PresaleError::InvalidPrice", w)
    ELSE IF ~(supplied.feed.decimals = CHAINLINK_DECIMALS)
        THEN Fail("PresaleError::InvalidPrice", w)
    ELSE IF ~(now - supplied.feed.timestamp <= PRICE_FEED_STALENESS_THRESHOLD_SECONDS)
        THEN Fail("PresaleError::StalePrice", w)
    ELSE IF ~(supplied.feed.owner = CHAINLINK_PROGRAM_ID)
        THEN Fail("PresaleError::InvalidPrice", w)
    ELSE IF ~(w.presale.token_price_usd_micro > 0)
        THEN Fail("PresaleError::InvalidAmount", w)
    ELSE LET amount == tokens_to_receive_u128(digits_of(sol_amount),
                                              supplied.feed.answer.magnitude,
                                              digits_of(w.presale.token_price_usd_micro))
             tokens_to_receive == value_of(amount[1])
         IN
         IF amount = None THEN Fail("PresaleError::Overflow", w)
         ELSE IF less(U64_MAX, amount[1]) THEN Fail("PresaleError::Overflow", w)
         ELSE IF ~(tokens_to_receive > 0) THEN Fail("PresaleError::InvalidAmount", w)
         ELSE IF w.presale.max_per_user > 0
                 /\ ~(w.presale.user_purchase[buyer].total_purchased + tokens_to_receive
                         <= w.presale.max_per_user)
         THEN Fail("PresaleError::PerUserLimitExceeded", w)
         ELSE IF ~supplied.vaults_valid THEN Fail("PresaleError::PaymentTokenNotAllowed", w)
         ELSE IF ~(w.presale.token_vault >= tokens_to_receive)
             THEN Fail("TokenError::InsufficientFunds", w)
         ELSE Ok([record_purchase(w, buyer, tokens_to_receive, sol_amount)
                    EXCEPT !.presale.sol_vault = @ + sol_amount,
                           !.presale.token_vault = @ - tokens_to_receive])

\* buy_with_sol(sol_amount): lamports for presale tokens at the oracle's price.
\* `supplied` adds the buyer's lamports and the Chainlink feed account.
buy_with_sol(w, buyer, sol_amount, now, supplied) ==
    IF ~(w.presale.status = "Active") THEN Fail("PresaleError::PresaleNotActive", w)
    ELSE IF ~(sol_amount > 0) THEN Fail("PresaleError::InvalidAmount", w)
    ELSE IF ~(supplied.lamports >= sol_amount) THEN Fail("PresaleError::InvalidAmount", w)
    ELSE IF w.token.emergency_paused THEN Fail("PresaleError::TokenEmergencyPaused", w)
    ELSE IF buyer_blacklisted(w, supplied.buyer_blacklist)
        THEN Fail("PresaleError::BuyerBlacklisted", w)
    ELSE IF ~supplied.feed.readable THEN Fail("PresaleError::InvalidPrice", w)
    ELSE IF ~positive(supplied.feed.answer) THEN Fail("PresaleError::InvalidPrice", w)
    ELSE IF ~(supplied.feed.decimals = CHAINLINK_DECIMALS)
        THEN Fail("PresaleError::InvalidPrice", w)
    ELSE IF ~(now - supplied.feed.timestamp <= PRICE_FEED_STALENESS_THRESHOLD_SECONDS)
        THEN Fail("PresaleError::StalePrice", w)
    ELSE IF ~(supplied.feed.owner = CHAINLINK_PROGRAM_ID)
        THEN Fail("PresaleError::InvalidPrice", w)
    ELSE IF ~(w.presale.token_price_usd_micro > 0)
        THEN Fail("PresaleError::InvalidAmount", w)
    ELSE LET amount == tokens_to_receive_u128(digits_of(sol_amount),
                                              supplied.feed.answer.magnitude,
                                              digits_of(w.presale.token_price_usd_micro))
             tokens_to_receive == value_of(amount[1])
         IN
         IF amount = None THEN Fail("PresaleError::Overflow", w)
         ELSE IF less(U64_MAX, amount[1]) THEN Fail("PresaleError::Overflow", w)
         ELSE IF ~(tokens_to_receive > 0) THEN Fail("PresaleError::InvalidAmount", w)
         ELSE IF w.presale.max_presale_cap > 0
                 /\ ~(w.presale.total_tokens_sold + tokens_to_receive
                         <= w.presale.max_presale_cap)
         THEN Fail("PresaleError::PresaleCapExceeded", w)
         ELSE IF w.presale.max_per_user > 0
                 /\ ~(w.presale.user_purchase[buyer].total_purchased + tokens_to_receive
                         <= w.presale.max_per_user)
         THEN Fail("PresaleError::PerUserLimitExceeded", w)
         ELSE IF ~supplied.vaults_valid THEN Fail("PresaleError::PaymentTokenNotAllowed", w)
         ELSE IF ~(w.presale.token_vault >= tokens_to_receive)
             THEN Fail("TokenError::InsufficientFunds", w)
         ELSE Ok([record_purchase(w, buyer, tokens_to_receive, sol_amount)
                    EXCEPT !.presale.sol_vault = @ + sol_amount,
                           !.presale.token_vault = @ - tokens_to_receive])

\* ------------------------------------------- governance: the queue at machine width
\* i64::MAX = 2^63 - 1, and 2^64, the modulus of u64 and of the two's complement
\* i64.
I64_MAX == <<7, 0, 8, 5, 7, 7, 4, 5, 8, 6, 3, 0, 2, 7, 3, 3, 2, 2, 9>>
TWO_POW_64 == <<6, 1, 6, 1, 5, 5, 9, 0, 7, 3, 7, 0, 4, 4, 7, 6, 4, 4, 8, 1>>

\* An i64 is its sign and the digits of its magnitude.
I64(negative, magnitude) == [negative |-> negative, magnitude |-> magnitude]

\* `next_transaction_id += 1` on a u64. The operator is unchecked: at u64::MAX a
\* build with overflow checks panics (None), a build without them stores 0.
u64_increment(n) ==
    IF less(n, U64_MAX) THEN {Some(sum(n, <<1>>))} ELSE {None, Some(<< >>)}

\* `clock.unix_timestamp + governance_state.cooldown_period` on i64, for a
\* timestamp >= 0 and a cooldown > 0. The operator is unchecked: past i64::MAX a
\* build with overflow checks panics (None), a build without them stores the
\* sum less 2^64.
i64_add(timestamp, cooldown_period) ==
    LET exact == sum(timestamp.magnitude, cooldown_period.magnitude) IN
    IF ~less(I64_MAX, exact) THEN {Some(I64(FALSE, exact))}
    ELSE {None, Some(I64(TRUE, difference(TWO_POW_64, exact)))}

\* The outcomes of queue_unpause when next_transaction_id, the clock and
\* cooldown_period are kept at their widths: one per behaviour of the two
\* unchecked additions.
queue_unpause_at_width(w, initiator, now) ==
    IF queue_token_checks(w, initiator) # "Ok" THEN {Fail(queue_token_checks(w, initiator), w)}
    ELSE LET tx_id == w.gov.next_transaction_id IN
         {IF next = None \/ execute_after = None \/ tx_id \in DOMAIN w.txs
          THEN Fail(IF next = None \/ execute_after = None
                    THEN "ProgramFailedToComplete" ELSE "AccountAlreadyInUse", w)
          ELSE LET transaction ==
                       [id |-> tx_id, tx_type |-> "Unpause", status |-> "Pending",
                        initiator |-> initiator, target |-> DefaultPubkey, data |-> << >>,
                        timestamp |-> now, execute_after |-> execute_after[1],
                        approval_count |-> 0, approvals |-> << >>,
                        rejection_reason |-> << >>, rejector |-> DefaultPubkey]
               IN  Ok([w EXCEPT !.gov.next_transaction_id = next[1],
                                !.txs = [k \in DOMAIN @ \cup {tx_id} |->
                                            IF k = tx_id THEN transaction ELSE @[k]],
                                !.applied = [k \in DOMAIN @ \cup {tx_id} |->
                                            IF k = tx_id THEN 0 ELSE @[k]]]) :
            next \in u64_increment(tx_id), execute_after \in i64_add(now, w.gov.cooldown_period)}

\* ------------------------- token program: authority transfer, mint, burn, transfer
\* propose_governance_change(new_authority)
propose_governance_change(w, authority, new_authority, now) ==
    IF ~(w.token.authority = authority) THEN Fail("TokenError::Unauthorized", w)
    ELSE IF ~(new_authority # DefaultPubkey) THEN Fail("TokenError::Unauthorized", w)
    ELSE Ok([w EXCEPT !.token.pending_governance = Some(new_authority),
                      !.token.governance_change_time = Some(now)])

\* set_governance without the test of the cooldown.
set_governance_at_once(w, authority, new_authority, now) ==
    IF ~(w.token.authority = authority) THEN Fail("TokenError::Unauthorized", w)
    ELSE IF ~(w.token.pending_governance = Some(new_authority))
        THEN Fail("TokenError::Unauthorized", w)
    ELSE IF ~(w.token.governance_change_time # None) THEN Fail("TokenError::Unauthorized", w)
    ELSE Ok([w EXCEPT !.token.authority = new_authority,
                      !.token.pending_governance = None,
                      !.token.governance_change_time = None])

\* set_governance(new_authority)
set_governance(w, authority, new_authority, now) ==
    IF ~(w.token.authority = authority) THEN Fail("TokenError::Unauthorized", w)
    ELSE IF ~(w.token.pending_governance = Some(new_authority))
        THEN Fail("TokenError::Unauthorized", w)
    ELSE IF ~(w.token.governance_change_time # None) THEN Fail("TokenError::Unauthorized", w)
    ELSE IF ~(now >= w.token.governance_change_time[1] + GOVERNANCE_COOLDOWN_SECONDS)
        THEN Fail("TokenError::Unauthorized", w)
    ELSE Ok([w EXCEPT !.token.authority = new_authority,
                      !.token.pending_governance = None,
                      !.token.governance_change_time = None])

\* Byte 40 of the record the caller passes (any account, or none) is set.
flagged(records, key) == key # DefaultPubkey /\ records[key].is_set

\* mint_tokens(amount) to the token account of `to`. `supplied` is what the
\* caller's accounts hold: whether `to` unpacks as a token account of the mint,
\* the blacklist record passed, whether the mint account has its 82 bytes.
mint_tokens(w, governance, to, amount, supplied) ==
    IF ~(w.token.authority = governance) THEN Fail("TokenError::Unauthorized", w)
    ELSE IF w.token.emergency_paused THEN Fail("TokenError::EmergencyPaused", w)
    ELSE IF ~supplied.accounts_valid THEN Fail("TokenError::InvalidTokenAccount", w)
    ELSE IF flagged(w.token.blacklist, supplied.recipient_blacklist)
        THEN Fail("TokenError::Blacklisted", w)
    ELSE IF ~supplied.mint_valid THEN Fail("TokenError::Unauthorized", w)
    ELSE IF w.token.max_supply # None
            /\ ~(w.token.current_supply + amount <= w.token.max_supply[1])
        THEN Fail("TokenError::MathOverflow", w)
    ELSE Ok([w EXCEPT !.token.balances[to] = @ + amount,
                      !.token.current_supply = @ + amount])

\* burn_tokens without the test of the emergency pause.
burn_tokens_while_paused(w, governance, from, amount, supplied) ==
    IF ~(w.token.authority = governance) THEN Fail("TokenError::Unauthorized", w)
    ELSE IF ~supplied.accounts_valid THEN Fail("TokenError::InvalidTokenAccount", w)
    ELSE IF ~supplied.state_is_delegate THEN Fail("TokenError::OwnerMismatch", w)
    ELSE IF ~(w.token.balances[from] >= amount) THEN Fail("TokenError::InsufficientFunds", w)
    ELSE IF ~(w.token.current_supply >= amount) THEN Fail("TokenError::MathOverflow", w)
    ELSE Ok([w EXCEPT !.token.balances[from] = @ - amount,
                      !.token.current_supply = @ - amount])

\* burn_tokens(amount) from the token account of `from`; the state PDA signs the
\* burn, which the SPL token program accepts from the owner or delegate of the
\* account.
burn_tokens(w, governance, from, amount, supplied) ==
    IF ~(w.token.authority = governance) THEN Fail("TokenError::Unauthorized", w)
    ELSE IF w.token.emergency_paused THEN Fail("TokenError::EmergencyPaused", w)
    ELSE IF ~supplied.accounts_valid THEN Fail("TokenError::InvalidTokenAccount", w)
    ELSE IF ~supplied.state_is_delegate THEN Fail("TokenError::OwnerMismatch", w)
    ELSE IF ~(w.token.balances[from] >= amount) THEN Fail("TokenError::InsufficientFunds", w)
    ELSE IF ~(w.token.current_supply >= amount) THEN Fail("TokenError::MathOverflow", w)
    ELSE Ok([w EXCEPT !.token.balances[from] = @ - amount,
                      !.token.current_supply = @ - amount])

\* tracker_at with the window closed one second early.
tracker_at_window_closed_early(w, authority, sender, now) ==
    LET sell_tracker == w.token.sell_tracker[authority]
        opened == IF sell_tracker.account = DefaultPubkey
                  THEN [account |-> sender, total_sold_24h |-> 0, last_reset |-> now]
                  ELSE sell_tracker
    IN  IF now - opened.last_reset >= w.token.sell_limit_period
        THEN [opened EXCEPT !.total_sold_24h = 0, !.last_reset = now]
        ELSE opened

\* The sell tracker of `authority` as the sell-limit branch of transfer_tokens
\* leaves it before the limit is tested.
tracker_at(w, authority, sender, now) ==
    LET sell_tracker == w.token.sell_tracker[authority]
        opened == IF sell_tracker.account = DefaultPubkey
                  THEN [account |-> sender, total_sold_24h |-> 0, last_reset |-> now]
                  ELSE sell_tracker
    IN  IF now - opened.last_reset > w.token.sell_limit_period
        THEN [opened EXCEPT !.total_sold_24h = 0, !.last_reset = now]
        ELSE opened

\* transfer_tokens(amount) from the token account of `from` to that of `to`,
\* signed by `authority`. `supplied` names the flag records the caller passes.
transfer_tokens(w, authority, from, to, amount, now, supplied) ==
    LET is_pool == flagged(w.token.liquidity_pool, supplied.liquidity_pool)
        has_exemption == flagged(w.token.no_sell_limit, supplied.no_sell_limit)
        sell_tracker == tracker_at(w, authority, from, now)
        new_total == sell_tracker.total_sold_24h + amount
        sell_limit_amount == (w.token.balances[from] * w.token.sell_limit_percent) \div 100
        tracked == IF is_pool /\ ~has_exemption
                   THEN [w EXCEPT !.token.sell_tracker[authority] =
                            [sell_tracker EXCEPT !.total_sold_24h = new_total]]
                   ELSE w
    IN
    IF w.token.emergency_paused THEN Fail("TokenError::EmergencyPaused", w)
    ELSE IF ~supplied.accounts_valid THEN Fail("TokenError::InvalidTokenAccount", w)
    ELSE IF flagged(w.token.blacklist, supplied.sender_blacklist)
        THEN Fail("TokenError::Blacklisted", w)
    ELSE IF flagged(w.token.blacklist, supplied.recipient_blacklist)
        THEN Fail("TokenError::Blacklisted", w)
    ELSE IF flagged(w.token.restricted, supplied.sender_restricted)
        THEN Fail("TokenError::Restricted", w)
    ELSE IF flagged(w.token.restricted, supplied.recipient_restricted)
        THEN Fail("TokenError::Restricted", w)
    ELSE IF w.token.whitelist_mode /\ ~supplied.whitelisted
        THEN Fail("TokenError::Unauthorized", w)
    ELSE IF is_pool /\ ~has_exemption /\ ~(new_total <= sell_limit_amount)
        THEN Fail("TokenError::SellLimitExceeded", w)
    ELSE IF ~(authority = from) THEN Fail("TokenError::OwnerMismatch", w)
    ELSE IF ~(w.token.balances[from] >= amount) THEN Fail("TokenError::InsufficientFunds", w)
    ELSE Ok([tracked EXCEPT !.token.balances[from] = @ - amount,
                            !.token.balances[to] = @ + amount])

\* ------------------------------------------------------ governance: execute
\* Records that the effect of transaction `account` took place.
effect_applied(result, account) ==
    IF result.err = "Ok"
    THEN Ok([result.world EXCEPT !.applied[account] = @ + 1])
    ELSE result

decode_pubkey(data) == from_le_unsigned(SubSeq(data, 1, PUBKEY_BYTES))

\* The match arms of execute_transaction. `supplied` holds the keys of the
\* target_account and pool_address accounts the caller passes.
\* execute_flag that trusts the supplied account instead of comparing it.
execute_flag_unverified(w, transaction, supplied) ==
    IF Len(transaction.data) < PUBKEY_BYTES + 1 THEN Fail("InvalidAccount", w)
    ELSE LET account_pubkey == decode_pubkey(transaction.data)
             value == transaction.data[PUBKEY_BYTES + 1] # 0
         IN  CASE transaction.tx_type = "Blacklist" ->
                    set_blacklist(w, GovernancePda, supplied.target_account,
                                  account_pubkey, value)
               [] transaction.tx_type = "NoSellLimit" ->
                    set_no_sell_limit(w, GovernancePda, supplied.target_account,
                                      account_pubkey, value)
               [] transaction.tx_type = "Restrict" ->
                    set_restricted(w, GovernancePda, supplied.target_account,
                                   account_pubkey, value)
               [] transaction.tx_type = "Pair" ->
                    set_liquidity_pool(w, GovernancePda, supplied.pool_address,
                                       account_pubkey, value)

execute_flag(w, transaction, supplied) ==
    IF Len(transaction.data) < PUBKEY_BYTES + 1 THEN Fail("InvalidAccount", w)
    ELSE LET account_pubkey == decode_pubkey(transaction.data)
             value == transaction.data[PUBKEY_BYTES + 1] # 0
         IN  CASE transaction.tx_type = "Blacklist" ->
                    IF ~(account_pubkey = supplied.target_account)
                    THEN Fail("InvalidAccount", w)
                    ELSE set_blacklist(w, GovernancePda, supplied.target_account,
                                       account_pubkey, value)
               [] transaction.tx_type = "NoSellLimit" ->
                    IF ~(account_pubkey = supplied.target_account)
                    THEN Fail("InvalidAccount", w)
                    ELSE set_no_sell_limit(w, GovernancePda, supplied.target_account,
                                           account_pubkey, value)
               [] transaction.tx_type = "Restrict" ->
                    IF ~(account_pubkey = supplied.target_account)
                    THEN Fail("InvalidAccount", w)
                    ELSE set_restricted(w, GovernancePda, supplied.target_account,
                                        account_pubkey, value)
               [] transaction.tx_type = "Pair" ->
                    IF ~(account_pubkey = supplied.pool_address)
                    THEN Fail("InvalidAccount", w)
                    ELSE set_liquidity_pool(w, GovernancePda, supplied.pool_address,
                                            account_pubkey, value)

execute_set_required_approvals(w, transaction) ==
    IF Len(transaction.data) < 1 THEN Fail("InvalidRequiredApprovals", w)
    ELSE LET required == transaction.data[1] IN
         IF ~(required >= MIN_REQUIRED_APPROVALS) THEN Fail("RequiredApprovalsTooLow", w)
         ELSE IF ~(required <= Len(w.gov.signers)) THEN Fail("RequiredApprovalsTooHigh", w)
         ELSE Ok([w EXCEPT !.gov.required_approvals = required])

\* execute_set_cooldown_period that reads one byte, as the SetRequiredApprovals arm does.
execute_set_cooldown_period_one_byte(w, transaction) ==
    IF Len(transaction.data) < 8 THEN Fail("InvalidCooldownPeriod", w)
    ELSE LET period == transaction.data[1] IN
         IF ~(period >= MIN_COOLDOWN_SECONDS) THEN Fail("CooldownPeriodTooLow", w)
         ELSE IF ~(period <= MAX_COOLDOWN_SECONDS) THEN Fail("CooldownPeriodTooHigh", w)
         ELSE Ok([w EXCEPT !.gov.cooldown_period = period])

\* execute_set_cooldown_period that re-dates the queued transactions.
execute_set_cooldown_period_retroactive(w, transaction) ==
    IF Len(transaction.data) < 8 THEN Fail("InvalidCooldownPeriod", w)
    ELSE LET period == from_le_signed(SubSeq(transaction.data, 1, 8)) IN
         IF ~(period >= MIN_COOLDOWN_SECONDS) THEN Fail("CooldownPeriodTooLow", w)
         ELSE IF ~(period <= MAX_COOLDOWN_SECONDS) THEN Fail("CooldownPeriodTooHigh", w)
         ELSE Ok([w EXCEPT !.gov.cooldown_period = period,
                           !.txs = [k \in DOMAIN w.txs |->
                                      [w.txs[k] EXCEPT !.execute_after =
                                                          w.txs[k].timestamp + period]]])

execute_set_cooldown_period(w, transaction) ==
    IF Len(transaction.data) < 8 THEN Fail("InvalidCooldownPeriod", w)
    ELSE LET period == from_le_signed(SubSeq(transaction.data, 1, 8)) IN
         IF ~(period >= MIN_COOLDOWN_SECONDS) THEN Fail("CooldownPeriodTooLow", w)
         ELSE IF ~(period <= MAX_COOLDOWN_SECONDS) THEN Fail("CooldownPeriodTooHigh", w)
         ELSE Ok([w EXCEPT !.gov.cooldown_period = period])

execute_address(w, transaction) ==
    IF Len(transaction.data) < PUBKEY_BYTES THEN Fail("InvalidAccount", w)
    ELSE LET address == decode_pubkey(transaction.data) IN
         CASE transaction.tx_type = "SetBridgeAddress" ->
                set_bridge_address(w, GovernancePda, address)
           [] transaction.tx_type = "SetBondAddress" ->
                set_bond_address(w, GovernancePda, address)
           [] transaction.tx_type = "SetTreasuryAddress" ->
                set_treasury_address(w, GovernancePda, address)

execute_withdraw_to_treasury(w, transaction) ==
    IF Len(transaction.data) < 8 THEN Fail("InvalidAccount", w)
    ELSE withdraw_to_treasury(w, GovernancePda,
                              from_le_unsigned(SubSeq(transaction.data, 1, 8)))

execute_dispatch(w, transaction, supplied) ==
    CASE transaction.tx_type = "Unpause" -> set_emergency_pause(w, GovernancePda, FALSE)
      [] transaction.tx_type \in {"Blacklist", "NoSellLimit", "Restrict", "Pair"} ->
            execute_flag(w, transaction, supplied)
      [] transaction.tx_type = "SetRequiredApprovals" ->
            execute_set_required_approvals(w, transaction)
      [] transaction.tx_type = "SetCooldownPeriod" ->
            execute_set_cooldown_period(w, transaction)
      [] transaction.tx_type \in {"SetBridgeAddress", "SetBondAddress", "SetTreasuryAddress"} ->
            execute_address(w, transaction)
      [] transaction.tx_type = "WithdrawToTreasury" ->
            execute_withdraw_to_treasury(w, transaction)

\* execute_transaction that measures the cooldown against the queue timestamp.
execute_transaction_since_queue(w, account, tx_id, now, supplied) ==
    LET transaction == w.txs[account]
        marked == [w EXCEPT !.txs[account].status = "Executed"]
    IN  IF ~(transaction.id = tx_id) THEN Fail("InvalidTransactionId", w)
        ELSE IF ~(transaction.status = "Pending") THEN Fail("TransactionNotPending", w)
        ELSE IF ~(now >= transaction.timestamp) THEN Fail("CooldownNotExpired", marked)
        ELSE IF ~(transaction.approval_count >= marked.gov.required_approvals)
            THEN Fail("InsufficientApprovals", marked)
        ELSE effect_applied(execute_dispatch(marked, marked.txs[account], supplied), account)

\* execute_transaction that compares the approvals with the minimum threshold.
execute_transaction_min_quorum(w, account, tx_id, now, supplied) ==
    LET transaction == w.txs[account]
        marked == [w EXCEPT !.txs[account].status = "Executed"]
    IN  IF ~(transaction.id = tx_id) THEN Fail("InvalidTransactionId", w)
        ELSE IF ~(transaction.status = "Pending") THEN Fail("TransactionNotPending", w)
        ELSE IF ~(now >= transaction.execute_after) THEN Fail("CooldownNotExpired", marked)
        ELSE IF ~(transaction.approval_count >= MIN_REQUIRED_APPROVALS)
            THEN Fail("InsufficientApprovals", marked)
        ELSE effect_applied(execute_dispatch(marked, marked.txs[account], supplied), account)

\* execute_transaction that lets a transaction lapse one maximum cooldown after
\* execute_after.
execute_transaction_expiring(w, account, tx_id, now, supplied) ==
    LET transaction == w.txs[account]
        marked == [w EXCEPT !.txs[account].status = "Executed"]
    IN  IF ~(transaction.id = tx_id) THEN Fail("InvalidTransactionId", w)
        ELSE IF ~(transaction.status = "Pending") THEN Fail("TransactionNotPending", w)
        ELSE IF ~(now >= transaction.execute_after) THEN Fail("CooldownNotExpired", marked)
        ELSE IF ~(now < transaction.execute_after + MAX_COOLDOWN_SECONDS)
            THEN Fail("CooldownNotExpired", marked)
        ELSE IF ~(transaction.approval_count >= marked.gov.required_approvals)
            THEN Fail("InsufficientApprovals", marked)
        ELSE effect_applied(execute_dispatch(marked, marked.txs[account], supplied), account)

\* execute_transaction without the early write of Executed.
execute_transaction_unmarked(w, account, tx_id, now, supplied) ==
    LET transaction == w.txs[account] IN
        IF ~(transaction.id = tx_id) THEN Fail("InvalidTransactionId", w)
        ELSE IF ~(transaction.status = "Pending") THEN Fail("TransactionNotPending", w)
        ELSE IF ~(now >= transaction.execute_after) THEN Fail("CooldownNotExpired", w)
        ELSE IF ~(transaction.approval_count >= w.gov.required_approvals)
            THEN Fail("InsufficientApprovals", w)
        ELSE effect_applied(execute_dispatch(w, transaction, supplied), account)

execute_transaction(w, account, tx_id, now, supplied) ==
    LET transaction == w.txs[account]
        \* Mark as executing immediately to prevent reentrancy
        marked == [w EXCEPT !.txs[account].status = "Executed"]
    IN  IF ~(transaction.id = tx_id) THEN Fail("InvalidTransactionId", w)
        ELSE IF ~(transaction.status = "Pending") THEN Fail("TransactionNotPending", w)
        ELSE IF ~(now >= transaction.execute_after) THEN Fail("CooldownNotExpired", marked)
        ELSE IF ~(transaction.approval_count >= marked.gov.required_approvals)
            THEN Fail("InsufficientApprovals", marked)
        ELSE effect_applied(execute_dispatch(marked, marked.txs[account], supplied), account)

\* ------------------------------------------------ governance: direct calls
\* set_required_approvals without the upper bound.
set_required_approvals_unbounded(w, authority, required) ==
    IF ~w.gov.initialized THEN Fail("AccountNotInitialized", w)
    ELSE IF w.gov.authority # authority THEN Fail("Unauthorized", w)
    ELSE IF ~is_authorized_signer(w.gov, authority) THEN Fail("NotAuthorizedSigner", w)
    ELSE IF ~(required >= MIN_REQUIRED_APPROVALS) THEN Fail("RequiredApprovalsTooLow", w)
    ELSE Ok([w EXCEPT !.gov.required_approvals = required])

set_required_approvals(w, authority, required) ==
    IF ~w.gov.initialized THEN Fail("AccountNotInitialized", w)
    ELSE IF w.gov.authority # authority THEN Fail("Unauthorized", w)
    ELSE IF ~is_authorized_signer(w.gov, authority) THEN Fail("NotAuthorizedSigner", w)
    ELSE IF ~(required >= MIN_REQUIRED_APPROVALS) THEN Fail("RequiredApprovalsTooLow", w)
    ELSE IF ~(w.gov.authority = authority) THEN Fail("Unauthorized", w)
    ELSE IF ~(required <= Len(w.gov.signers)) THEN Fail("RequiredApprovalsTooHigh", w)
    ELSE Ok([w EXCEPT !.gov.required_approvals = required])

set_cooldown_period(w, authority, period) ==
    IF ~w.gov.initialized THEN Fail("AccountNotInitialized", w)
    ELSE IF w.gov.authority # authority THEN Fail("Unauthorized", w)
    ELSE IF ~is_authorized_signer(w.gov, authority) THEN Fail("NotAuthorizedSigner", w)
    ELSE IF ~(period >= MIN_COOLDOWN_SECONDS) THEN Fail("CooldownPeriodTooLow", w)
    ELSE IF ~(w.gov.authority = authority) THEN Fail("Unauthorized", w)
    ELSE Ok([w EXCEPT !.gov.cooldown_period = period])

\* emergency_pause that flips the flag instead of setting it.
emergency_pause_toggle(w, authority) ==
    IF ~w.gov.initialized THEN Fail("AccountNotInitialized", w)
    ELSE IF ~is_authorized_signer(w.gov, authority) THEN Fail("NotAuthorizedSigner", w)
    ELSE IF ~w.gov.token_program_set THEN Fail("TokenProgramNotSet", w)
    ELSE set_emergency_pause(w, GovernancePda, ~w.token.emergency_paused)

emergency_pause(w, authority) ==
    IF ~w.gov.initialized THEN Fail("AccountNotInitialized", w)
    ELSE IF ~is_authorized_signer(w.gov, authority) THEN Fail("NotAuthorizedSigner", w)
    ELSE IF ~w.gov.token_program_set THEN Fail("TokenProgramNotSet", w)
    ELSE set_emergency_pause(w, GovernancePda, TRUE)

\* ------------------------------------------------------------------- inputs
Callers == {SignerA, SignerB, SignerC, Outsider}
Deployers == {SignerA}
Initiators == {SignerA, Outsider}
Approvers == {SignerA, SignerB, Outsider}
Rejectors == {SignerC, Outsider}
SignerLists == {<<SignerA, SignerB, SignerC>>, <<SignerA, SignerB, SignerB>>,
                << >>, [i \in 1..(MAX_SIGNERS + 1) |-> SignerA]}
RequiredInputs == {1, 2, 3, 4}
InitialRequired == {1, 2, 4}
QueuedRequired == {1, 3, 4}
PeriodInputs == {-1, MIN_COOLDOWN_SECONDS - 1, 2 * MIN_COOLDOWN_SECONDS}
InitialPeriods == {MIN_COOLDOWN_SECONDS - 1, MIN_COOLDOWN_SECONDS}
QueuedPeriods == {MIN_COOLDOWN_SECONDS - 1, 2 * MIN_COOLDOWN_SECONDS,
                  MAX_COOLDOWN_SECONDS + 1}
AccountInputs == {DefaultPubkey, Target1}
SuppliedAccounts == [target_account : {Target1, Target2}, pool_address : {Target1, Target2}]
FlagHolders == {Target1, Target2}
AmountInputs == {0, 5}
ProgramInputs == {DefaultPubkey, TokenProgramId, PresaleProgramId}
Reasons == {<< >>, <<98, 97, 100>>, [i \in 1..(MAX_REASON_LEN + 1) |-> 120]}
TxIdInputs == 1..2
\* Wider inputs for set-up and the direct setters.
ConfigDeployers == {SignerA, Outsider}
ConfigSignerLists == SignerLists \cup {<<SignerA, SignerB>>}
ConfigRequired == {1, 2, 3}
ConfigPeriods == {MIN_COOLDOWN_SECONDS - 1, MIN_COOLDOWN_SECONDS, 2 * MIN_COOLDOWN_SECONDS,
                  MAX_COOLDOWN_SECONDS, MAX_COOLDOWN_SECONDS + 1}

VaultAtStart == 5

\* Inputs of the sale.
\* Purchases are generated while fewer than MaxSold tokens are sold.
MaxSold == 200
TokenVaultAtStart == 300
Buyers == {Buyer1, Buyer2}
SaleCallers == {Admin, Outsider}
BuyAmounts == {50, 60}
SolAmounts == {0, 25, 30}
CapInputs == {0, 150}
PerUserInputs == {0, 100}
\* Limits on either side of one another, and of what one purchase raises.
LimitInputs == {0, 40, 100, 150}
\* Withdrawals of nothing, of what one purchase pays and of half the token vault.
WithdrawAmounts == {0, 25}
UnsoldAmounts == {0, 150}
LimitOptions == {None} \cup {Some(x) : x \in LimitInputs}
\* A round of the SOL/USD feed as the Chainlink program publishes it.
GenuineFeed(now) ==
    [readable |-> TRUE, answer |-> I128(FALSE, digits_of(2000000)), decimals |-> CHAINLINK_DECIMALS,
     timestamp |-> now, owner |-> CHAINLINK_PROGRAM_ID]
Feeds(now) == {GenuineFeed(now), [GenuineFeed(now) EXCEPT !.answer = I128(FALSE, << >>)]}
SuppliedPurchases(now) ==
    [buyer_blacklist : {DefaultPubkey, Target1}, buyer_accounts_valid : {TRUE},
     vaults_valid : {TRUE}, payment_balance : {0, 1000}, lamports : {1000},
     feed : Feeds(now)]

\* The oracle: SOL at $0.02 and at $0.03333333 (8 decimals), and an answer of
\* 10^30, which the i128 of a round holds and the products of buy_with_sol do not.
MaxOracleClock == 3601
OracleVaultAtStart == 20000
OracleAnswers == {digits_of(2000000), digits_of(3333333), pow10(30)}
TokenPrices == {0, 7, 1000, 3000000}
OracleSolAmounts == {0, 25}
RoundTimestamps(now) == {0, now}
OracleFeeds(now) ==
    {[GenuineFeed(now) EXCEPT !.answer = I128(FALSE, answer), !.timestamp = timestamp] :
        answer \in OracleAnswers, timestamp \in RoundTimestamps(now)}
    \cup {[GenuineFeed(now) EXCEPT !.answer = I128(FALSE, << >>)],
          [GenuineFeed(now) EXCEPT !.answer = I128(TRUE, digits_of(2000000))],
          [GenuineFeed(now) EXCEPT !.decimals = 6],
          [GenuineFeed(now) EXCEPT !.owner = Outsider],
          [GenuineFeed(now) EXCEPT !.readable = FALSE]}
OraclePurchases(now) ==
    [buyer_blacklist : {DefaultPubkey}, buyer_accounts_valid : {TRUE}, vaults_valid : {TRUE},
     payment_balance : {0}, lamports : {1000}, feed : OracleFeeds(now)]

\* The token program: who calls, who holds, what is moved.
MaxMinted == 200
MaxTokenClock == 1209600
TokenHolders == {Buyer1, Buyer2}
TokenCallers == {GovernancePda, Outsider}
HandoverCallers == {GovernancePda, Admin, Outsider}
ProposedAuthorities == {DefaultPubkey, GovernancePda, Admin, Outsider}
MintAmounts == {100}
BurnAmounts == {50}
TransferAmounts == {10, 50}
MintAccounts ==
    [accounts_valid : BOOLEAN, mint_valid : {TRUE}, recipient_blacklist : {DefaultPubkey, Target1}]
BurnAccounts == [accounts_valid : {TRUE}, state_is_delegate : BOOLEAN]
TransferAccounts ==
    [accounts_valid : {TRUE}, whitelisted : {FALSE},
     sender_blacklist : {DefaultPubkey, Target1}, recipient_blacklist : {DefaultPubkey},
     sender_restricted : {DefaultPubkey}, recipient_restricted : {DefaultPubkey},
     liquidity_pool : {DefaultPubkey, Target2}, no_sell_limit : {DefaultPubkey}]

\* Sales to the liquidity pool: the clock reaches the end of the first window
\* and the second after it.
MaxSellClock == 86401
SellerFloor == 80
SellAmounts == {5, 10}
SellAccounts ==
    [accounts_valid : {TRUE}, whitelisted : {FALSE},
     sender_blacklist : {DefaultPubkey, Target1}, recipient_blacklist : {DefaultPubkey},
     sender_restricted : {DefaultPubkey}, recipient_restricted : {DefaultPubkey},
     liquidity_pool : {DefaultPubkey, Target2}, no_sell_limit : {DefaultPubkey, Target1}]

\* The queue at machine width: ids that stay below u64::MAX, clocks of this
\* and the next century, cooldowns up to i64::MAX.
MaxWideQueued == 2
WideIds == {<<1>>, digits_of(2000000000), difference(U64_MAX, <<3>>)}
WideClocks == {<< >>, <<1>>, digits_of(1700000000), sum(digits_of(2000000000), digits_of(2000000000))}
WidePeriods ==
    {digits_of(MIN_COOLDOWN_SECONDS), digits_of(MAX_COOLDOWN_SECONDS),
     difference(I64_MAX, digits_of(1700000000)), I64_MAX}

NoFlag == [account |-> DefaultPubkey, is_set |-> FALSE]

\* --------------------------------------------------------------------- Init
Init ==
    /\ governance_state = UninitializedGovernance
    /\ transactions = << >>
    /\ applied = << >>
    /\ clock = 0
    /\ token_state \in
          [authority : {GovernancePda}, emergency_paused : {FALSE},
           bridge_address : {DefaultPubkey}, bond_address : {DefaultPubkey},
           blacklist : {[h \in FlagHolders |-> NoFlag]},
           no_sell_limit : {[h \in FlagHolders |-> NoFlag]},
           restricted : {[h \in FlagHolders |-> NoFlag]},
           liquidity_pool : {[h \in FlagHolders |-> NoFlag]}]
    /\ presale_state =
          [NewPresale(Admin, 1000, Buyers, TokenVaultAtStart)
             EXCEPT !.authority = GovernancePda, !.governance = GovernancePda,
                    !.governance_set = TRUE, !.vault_balance = VaultAtStart]

\* The presale right after its initialize, still under its admin; the token
\* program may be paused and may hold a blacklist record that is set.
InitSale ==
    /\ governance_state = UninitializedGovernance
    /\ transactions = << >>
    /\ applied = << >>
    /\ clock = 0
    /\ token_state \in
          [authority : {GovernancePda}, emergency_paused : BOOLEAN,
           bridge_address : {DefaultPubkey}, bond_address : {DefaultPubkey},
           blacklist : {[h \in FlagHolders |-> NoFlag],
                        [h \in FlagHolders |->
                            IF h = Target1 THEN [account |-> Target1, is_set |-> TRUE]
                            ELSE NoFlag]},
           no_sell_limit : {[h \in FlagHolders |-> NoFlag]},
           restricted : {[h \in FlagHolders |-> NoFlag]},
           liquidity_pool : {[h \in FlagHolders |-> NoFlag]}]
    /\ presale_state = NewPresale(Admin, 1000, Buyers, TokenVaultAtStart)

\* The sale before it starts, with a vault that covers purchases at every
\* token price; the token program runs unpaused.
InitOracle ==
    /\ governance_state = UninitializedGovernance
    /\ transactions = << >>
    /\ applied = << >>
    /\ clock = 0
    /\ token_state =
          [authority |-> GovernancePda, emergency_paused |-> FALSE,
           bridge_address |-> DefaultPubkey, bond_address |-> DefaultPubkey,
           blacklist |-> [h \in FlagHolders |-> NoFlag],
           no_sell_limit |-> [h \in FlagHolders |-> NoFlag],
           restricted |-> [h \in FlagHolders |-> NoFlag],
           liquidity_pool |-> [h \in FlagHolders |-> NoFlag]]
    /\ presale_state = NewPresale(Admin, 1000, Buyers, OracleVaultAtStart)

\* No sell tracker yet.
NoTracker == [account |-> DefaultPubkey, total_sold_24h |-> 0, last_reset |-> 0]

\* TokenState after the token program's initialize, with the token accounts of
\* `holders` empty and no sell tracker opened.
NewTokenState(authority, holders) ==
    [authority |-> authority, emergency_paused |-> FALSE,
     sell_limit_percent |-> 10, sell_limit_period |-> 86400,
     bridge_address |-> DefaultPubkey, bond_address |-> DefaultPubkey,
     pending_governance |-> None, governance_change_time |-> None,
     max_supply |-> None, current_supply |-> 0, whitelist_mode |-> FALSE,
     blacklist |-> [h \in FlagHolders |-> NoFlag],
     no_sell_limit |-> [h \in FlagHolders |-> NoFlag],
     restricted |-> [h \in FlagHolders |-> NoFlag],
     liquidity_pool |-> [h \in FlagHolders |-> NoFlag],
     balances |-> [h \in holders |-> 0],
     sell_tracker |-> [h \in holders |-> NoTracker]]

\* The token program under the governance PDA, with Target1 blacklisted and
\* Target2 registered as a liquidity pool.
InitToken ==
    /\ governance_state = UninitializedGovernance
    /\ transactions = << >>
    /\ applied = << >>
    /\ clock = 0
    /\ token_state =
          [NewTokenState(GovernancePda, TokenHolders)
             EXCEPT !.blacklist[Target1] = [account |-> Target1, is_set |-> TRUE],
                    !.liquidity_pool[Target2] = [account |-> Target2, is_set |-> TRUE]]
    /\ presale_state = NewPresale(Admin, 1000, Buyers, TokenVaultAtStart)

\* The governance program once initialize and set_token_program have run and
\* next_transaction_id - 1 transactions have been queued, with the numbers at
\* their widths: initialize accepts every cooldown_period >= 1800.
InitWidth ==
    /\ governance_state \in
          {[initialized |-> TRUE, authority |-> SignerA, required_approvals |-> 2,
            cooldown_period |-> I64(FALSE, period), next_transaction_id |-> id,
            token_program |-> TokenProgramId, token_program_set |-> TRUE,
            presale_program |-> DefaultPubkey, presale_program_set |-> FALSE,
            signers |-> <<SignerA, SignerB, SignerC>>] :
                id \in WideIds, period \in WidePeriods}
    /\ transactions = << >>
    /\ applied = << >>
    /\ clock \in {I64(FALSE, now) : now \in WideClocks}
    /\ token_state \in
          [authority : {GovernancePda}, emergency_paused : {FALSE},
           bridge_address : {DefaultPubkey}, bond_address : {DefaultPubkey},
           blacklist : {[h \in FlagHolders |-> NoFlag]},
           no_sell_limit : {[h \in FlagHolders |-> NoFlag]},
           restricted : {[h \in FlagHolders |-> NoFlag]},
           liquidity_pool : {[h \in FlagHolders |-> NoFlag]}]
    /\ presale_state = NewPresale(Admin, 1000, Buyers, TokenVaultAtStart)

\* ------------------------------------------------------------------ actions
\* One instruction: the accounts take the committed outcome of `result`. A call
\* that commits nothing is a stuttering step and is not generated.
Instruction(result) ==
    LET after == Commit(result, World) IN
    /\ after # World
    /\ governance_state' = after.gov
    /\ transactions' = after.txs
    /\ token_state' = after.token
    /\ presale_state' = after.presale
    /\ applied' = after.applied
    /\ UNCHANGED clock

InitializeFrom(authorities, requireds, periods, lists) ==
    \E authority \in authorities, required \in requireds,
       period \in periods, signers \in lists :
        Instruction(initialize(World, authority, required, period, signers))

Initialize == InitializeFrom(Deployers, InitialRequired, InitialPeriods, SignerLists)

SetTokenProgram ==
    \E authority \in Callers, program \in ProgramInputs :
        Instruction(set_token_program(World, authority, program))

SetPresaleProgram ==
    \E authority \in Callers, program \in ProgramInputs :
        Instruction(set_presale_program(World, authority, program))

QueueUnpause ==
    \E initiator \in Initiators : Instruction(queue_unpause(World, initiator, clock))

QueueSetBlacklist ==
    \E initiator \in Initiators, account \in AccountInputs, value \in BOOLEAN :
    Instruction(queue_set_blacklist(World, initiator, account, value, clock))

QueueSetNoSellLimit ==
    \E initiator \in Initiators, account \in AccountInputs, value \in BOOLEAN :
    Instruction(queue_set_no_sell_limit(World, initiator, account, value, clock))

QueueSetRestricted ==
    \E initiator \in Initiators, account \in AccountInputs, value \in BOOLEAN :
    Instruction(queue_set_restricted(World, initiator, account, value, clock))

QueueSetLiquidityPool ==
    \E initiator \in Initiators, pool \in AccountInputs, value \in BOOLEAN :
    Instruction(queue_set_liquidity_pool(World, initiator, pool, value, clock))

QueueSetBridgeAddress ==
    \E initiator \in Initiators, address \in AccountInputs :
    Instruction(queue_set_bridge_address(World, initiator, address, clock))

QueueSetBondAddress ==
    \E initiator \in Initiators, address \in AccountInputs :
    Instruction(queue_set_bond_address(World, initiator, address, clock))

QueueSetTreasuryAddress ==
    \E initiator \in Initiators, address \in AccountInputs :
    Instruction(queue_set_treasury_address(World, initiator, address, clock))

QueueWithdrawToTreasury ==
    \E initiator \in Initiators, amount \in AmountInputs :
    Instruction(queue_withdraw_to_treasury(World, initiator, amount, clock))

QueueSetRequiredApprovals ==
    \E initiator \in Initiators, required \in QueuedRequired :
    Instruction(queue_set_required_approvals(World, initiator, required, clock))

QueueSetCooldownPeriod ==
    \E initiator \in Initiators, period \in QueuedPeriods :
    Instruction(queue_set_cooldown_period(World, initiator, period, clock))

ApproveTransaction ==
    \E account \in DOMAIN transactions, tx_id \in TxIdInputs, approver \in Approvers :
        Instruction(approve_transaction(World, account, tx_id, approver))

RejectTransaction ==
    \E account \in DOMAIN transactions, tx_id \in TxIdInputs,
       approver \in Rejectors, reason \in Reasons :
        Instruction(reject_transaction(World, account, tx_id, approver, reason))

ExecuteTransaction ==
    \E account \in DOMAIN transactions, tx_id \in TxIdInputs, supplied \in SuppliedAccounts :
        Instruction(execute_transaction(World, account, tx_id, clock, supplied))

SetRequiredApprovals ==
    \E authority \in Callers, required \in RequiredInputs :
        Instruction(set_required_approvals(World, authority, required))

SetCooldownPeriodFrom(periods) ==
    \E authority \in Callers, period \in periods :
        Instruction(set_cooldown_period(World, authority, period))

SetCooldownPeriod == SetCooldownPeriodFrom(PeriodInputs)

EmergencyPause ==
    \E authority \in Callers : Instruction(emergency_pause(World, authority))

\* The clock visits the instants just before and at each multiple of the
\* minimum cooldown: 0, 1799, 1800, 3599, 3600, ...
Tick ==
    /\ clock < MaxClock
    /\ clock' = IF clock % MIN_COOLDOWN_SECONDS = 0
                THEN clock + MIN_COOLDOWN_SECONDS - 1
                ELSE clock + 1
    /\ UNCHANGED <<governance_state, transactions, token_state, presale_state, applied>>

Queued == Cardinality(DOMAIN transactions)

\* The transaction lifecycle, on the kinds that need no target account.
Next ==
    \/ Initialize
    \/ SetTokenProgram
    \/ (Queued < MaxTx /\ QueueUnpause)
    \/ (Queued < MaxTx /\ QueueSetRequiredApprovals)
    \/ (Queued < MaxTx /\ QueueSetCooldownPeriod)
    \/ ApproveTransaction
    \/ RejectTransaction
    \/ ExecuteTransaction
    \/ SetRequiredApprovals
    \/ SetCooldownPeriod
    \/ Tick

Spec == Init /\ [][Next]_vars

\* Queueing, on all eleven kinds.
NextQueue ==
    \/ Initialize
    \/ SetTokenProgram
    \/ SetPresaleProgram
    \/ (Queued < MaxQueued /\ QueueUnpause)
    \/ (Queued < MaxQueued /\ QueueSetBlacklist)
    \/ (Queued < MaxQueued /\ QueueSetNoSellLimit)
    \/ (Queued < MaxQueued /\ QueueSetRestricted)
    \/ (Queued < MaxQueued /\ QueueSetLiquidityPool)
    \/ (Queued < MaxQueued /\ QueueSetBridgeAddress)
    \/ (Queued < MaxQueued /\ QueueSetBondAddress)
    \/ (Queued < MaxQueued /\ QueueSetTreasuryAddress)
    \/ (Queued < MaxQueued /\ QueueWithdrawToTreasury)
    \/ (Queued < MaxQueued /\ QueueSetRequiredApprovals)
    \/ (Queued < MaxQueued /\ QueueSetCooldownPeriod)
    \/ EmergencyPause

SpecQueue == Init /\ [][NextQueue]_vars

\* Who may queue, approve and reject, with either program set or not.
NextAccess ==
    \/ Initialize
    \/ SetTokenProgram
    \/ SetPresaleProgram
    \/ (Queued < MaxTx /\ QueueUnpause)
    \/ (Queued < MaxTx /\ QueueWithdrawToTreasury)
    \/ (Queued < MaxTx /\ QueueSetRequiredApprovals)
    \/ ApproveTransaction
    \/ RejectTransaction

SpecAccess == Init /\ [][NextAccess]_vars

\* The lifecycle of the four kinds that carry an (address, flag) payload.
NextFlags ==
    \/ Initialize
    \/ SetTokenProgram
    \/ (Queued < MaxTx /\ QueueSetBlacklist)
    \/ (Queued < MaxTx /\ QueueSetNoSellLimit)
    \/ (Queued < MaxTx /\ QueueSetRestricted)
    \/ (Queued < MaxTx /\ QueueSetLiquidityPool)
    \/ ApproveTransaction
    \/ ExecuteTransaction
    \/ Tick

SpecFlags == Init /\ [][NextFlags]_vars

\* The life of the payloads of two flag kinds: one names target_account at
\* execution, the other pool_address.
NextPayload ==
    \/ Initialize
    \/ SetTokenProgram
    \/ (Queued < MaxTx /\ QueueSetBlacklist)
    \/ (Queued < MaxTx /\ QueueSetLiquidityPool)
    \/ ApproveTransaction
    \/ ExecuteTransaction
    \/ Tick

SpecPayload == Init /\ [][NextPayload]_vars

\* Set-up and the direct setters, on the wider inputs.
NextConfig ==
    \/ InitializeFrom(ConfigDeployers, ConfigRequired, ConfigPeriods, ConfigSignerLists)
    \/ SetTokenProgram
    \/ SetPresaleProgram
    \/ SetRequiredApprovals
    \/ SetCooldownPeriodFrom(ConfigPeriods)

SpecConfig == Init /\ [][NextConfig]_vars

\* The sale: the admin opens, pauses and stops it and sets its limits, buyers buy.
StartPresale == \E admin \in SaleCallers : Instruction(start_presale(World, admin))

StopPresale == \E admin \in SaleCallers : Instruction(stop_presale(World, admin))

PausePresale == \E admin \in SaleCallers : Instruction(pause_presale(World, admin))

AllowPaymentToken ==
    \E admin \in SaleCallers : Instruction(allow_payment_token(World, admin))

DisallowPaymentToken ==
    \E admin \in SaleCallers : Instruction(disallow_payment_token(World, admin))

UpdatePresaleCapFrom(caps) ==
    \E authority \in SaleCallers, new_cap \in caps :
        Instruction(update_presale_cap(World, authority, new_cap))

UpdatePresaleCap == UpdatePresaleCapFrom(CapInputs)

UpdateMaxPerUserFrom(limits) ==
    \E authority \in SaleCallers, new_max \in limits :
        Instruction(update_max_per_user(World, authority, new_max))

UpdateMaxPerUser == UpdateMaxPerUserFrom(PerUserInputs)

UpdatePresaleLimits ==
    \E authority \in SaleCallers, new_presale_cap \in LimitOptions,
       new_max_per_user \in LimitOptions :
        Instruction(update_presale_limits(World, authority, new_presale_cap,
                                          new_max_per_user))

Buy ==
    \E buyer \in Buyers, amount \in BuyAmounts, supplied \in SuppliedPurchases(clock) :
        Instruction(buy(World, buyer, amount, supplied))

BuyWithSolFrom(amounts, accounts) ==
    \E buyer \in Buyers, sol_amount \in amounts, supplied \in accounts :
        Instruction(buy_with_sol(World, buyer, sol_amount, clock, supplied))

BuyWithSol == BuyWithSolFrom(SolAmounts, SuppliedPurchases(clock))

SetTokenPriceUsd ==
    \E authority \in SaleCallers, token_price_usd_micro \in TokenPrices :
        Instruction(set_token_price_usd(World, authority, token_price_usd_micro))

\* The clock visits the last instant at which a round of time 0 is fresh, and
\* the instants after it.
TickOracle ==
    /\ clock < MaxOracleClock
    /\ clock' = IF clock < PRICE_FEED_STALENESS_THRESHOLD_SECONDS
                THEN PRICE_FEED_STALENESS_THRESHOLD_SECONDS
                ELSE clock + 1
    /\ UNCHANGED <<governance_state, transactions, token_state, presale_state, applied>>

NextSale ==
    \/ StartPresale
    \/ StopPresale
    \/ PausePresale
    \/ AllowPaymentToken
    \/ DisallowPaymentToken
    \/ UpdatePresaleCap
    \/ UpdateMaxPerUser
    \/ (presale_state.total_tokens_sold < MaxSold /\ Buy)
    \/ (presale_state.total_tokens_sold < MaxSold /\ BuyWithSol)

SpecSale == InitSale /\ [][NextSale]_vars

\* The limits of the sale: the three entry points that set them, around the
\* status changes and the purchases they depend on.
NextLimits ==
    \/ StartPresale
    \/ StopPresale
    \/ PausePresale
    \/ AllowPaymentToken
    \/ UpdatePresaleCapFrom(LimitInputs)
    \/ UpdateMaxPerUserFrom(LimitInputs)
    \/ UpdatePresaleLimits
    \/ (presale_state.total_tokens_sold < MaxSold /\ Buy)

SpecLimits == InitSale /\ [][NextLimits]_vars

\* The cap of the sale against what is sold: purchases on both paths between
\* the two entry points that set the cap.
NextCap ==
    \/ StartPresale
    \/ AllowPaymentToken
    \/ UpdatePresaleCapFrom(LimitInputs)
    \/ UpdatePresaleLimits
    \/ (presale_state.total_tokens_sold < MaxSold /\ Buy)
    \/ (presale_state.total_tokens_sold < MaxSold /\ BuyWithSol)

SpecCap == InitSale /\ [][NextCap]_vars

\* The totals of the sale: purchases on both paths among the calls that move
\* funds out of the vaults and the calls that change status, cap and price.
SetTreasuryAddress ==
    \E authority \in SaleCallers, treasury_address \in AccountInputs :
        Instruction(set_treasury_address(World, authority, treasury_address))

WithdrawSolToTreasury ==
    \E authority \in SaleCallers, treasury \in AccountInputs, amount \in WithdrawAmounts :
        Instruction(withdraw_sol_to_treasury(World, authority, treasury, amount))

WithdrawUnsoldTokens ==
    \E authority \in SaleCallers, amount \in UnsoldAmounts, accounts_valid \in BOOLEAN :
        Instruction(withdraw_unsold_tokens(World, authority, amount, accounts_valid))

NextTotals ==
    \/ StartPresale
    \/ AllowPaymentToken
    \/ UpdatePresaleCap
    \/ SetTreasuryAddress
    \/ WithdrawSolToTreasury
    \/ WithdrawUnsoldTokens
    \/ (presale_state.total_tokens_sold < MaxSold /\ Buy)
    \/ (presale_state.total_tokens_sold < MaxSold /\ BuyWithSol)

SpecTotals == InitSale /\ [][NextTotals]_vars

\* The token program called directly.
SetEmergencyPause ==
    \E governance \in TokenCallers, value \in BOOLEAN :
        Instruction(set_emergency_pause(World, governance, value))

MintTokens ==
    \E governance \in TokenCallers, to \in TokenHolders, amount \in MintAmounts,
       supplied \in MintAccounts :
        Instruction(mint_tokens(World, governance, to, amount, supplied))

BurnTokens ==
    \E governance \in TokenCallers, from \in TokenHolders, amount \in BurnAmounts,
       supplied \in BurnAccounts :
        Instruction(burn_tokens(World, governance, from, amount, supplied))

TransferTokens ==
    \E authority \in TokenHolders, from \in TokenHolders, to \in TokenHolders,
       amount \in TransferAmounts, supplied \in TransferAccounts :
        Instruction(transfer_tokens(World, authority, from, to, amount, clock, supplied))

ProposeGovernanceChange ==
    \E authority \in HandoverCallers, new_authority \in ProposedAuthorities :
        Instruction(propose_governance_change(World, authority, new_authority, clock))

SetGovernance ==
    \E authority \in HandoverCallers, new_authority \in ProposedAuthorities :
        Instruction(set_governance(World, authority, new_authority, clock))

\* The clock visits the instants just before and at each multiple of the
\* governance cooldown.
TickToken ==
    /\ clock < MaxTokenClock
    /\ clock' = IF clock % GOVERNANCE_COOLDOWN_SECONDS = 0
                THEN clock + GOVERNANCE_COOLDOWN_SECONDS - 1
                ELSE clock + 1
    /\ UNCHANGED <<governance_state, transactions, token_state, presale_state, applied>>

\* Minting, burning and transferring, with the emergency pause set and lifted.
NextTokenOps ==
    \/ SetEmergencyPause
    \/ (token_state.current_supply < MaxMinted /\ MintTokens)
    \/ BurnTokens
    \/ TransferTokens

SpecTokenOps == InitToken /\ [][NextTokenOps]_vars

\* The hand-over of the token authority.
NextHandover ==
    \/ ProposeGovernanceChange
    \/ SetGovernance
    \/ SetEmergencyPause
    \/ TickToken

SpecHandover == InitToken /\ [][NextHandover]_vars

\* Purchases with SOL at moving oracle and token prices.
NextOracle ==
    \/ StartPresale
    \/ SetTokenPriceUsd
    \/ (presale_state.total_tokens_sold < MaxSold
            /\ BuyWithSolFrom(OracleSolAmounts, OraclePurchases(clock)))
    \/ TickOracle

SpecOracle == InitOracle /\ [][NextOracle]_vars

\* set_no_sell_limit(account, value), called directly by the token authority.
SetNoSellLimit ==
    \E governance \in TokenCallers, value \in BOOLEAN :
        Instruction(set_no_sell_limit(World, governance, Target1, Target1, value))

SellTokens ==
    \E authority \in TokenHolders, from \in TokenHolders, to \in TokenHolders,
       amount \in SellAmounts, supplied \in SellAccounts :
        /\ from # to
        /\ token_state.balances[from] > SellerFloor
        /\ Instruction(transfer_tokens(World, authority, from, to, amount, clock, supplied))

\* The clock visits the last instant of the window opened at 0 and the ones
\* after it.
TickSell ==
    /\ clock < MaxSellClock
    /\ clock' = IF clock = 0 THEN token_state.sell_limit_period ELSE clock + 1
    /\ UNCHANGED <<governance_state, transactions, token_state, presale_state, applied>>

\* Sales to the liquidity pool across the end of a window.
NextSell ==
    \/ (token_state.current_supply < MaxMinted /\ MintTokens)
    \/ SetNoSellLimit
    \/ SellTokens
    \/ TickSell

SpecSell == InitToken /\ [][NextSell]_vars

\* The clock visits the end of the minimum cooldown and then moves on by the
\* longest cooldown a transaction can carry.
TickLate ==
    /\ clock < MaxLateClock
    /\ clock' = IF clock = 0 THEN MIN_COOLDOWN_SECONDS ELSE clock + MAX_COOLDOWN_SECONDS
    /\ UNCHANGED <<governance_state, transactions, token_state, presale_state, applied>>

\* The emergency pause and the governed way back, long after the cooldown.
NextUnpause ==
    \/ Initialize
    \/ SetTokenProgram
    \/ EmergencyPause
    \/ (Queued < MaxTx /\ QueueUnpause)
    \/ ApproveTransaction
    \/ RejectTransaction
    \/ ExecuteTransaction
    \/ SetRequiredApprovals
    \/ TickLate

SpecUnpause == Init /\ [][NextUnpause]_vars

QueueUnpauseAtWidth ==
    \E initiator \in Initiators :
        \E result \in queue_unpause_at_width(World, initiator, clock) : Instruction(result)

\* Queueing with the counter, the clock and the cooldown at their widths.
NextWidth == Queued < MaxWideQueued /\ QueueUnpauseAtWidth

SpecWidth == InitWidth /\ [][NextWidth]_vars

\* ------------------------------------------------------------------- claims
Terminal(tx) == tx.status \in {"Executed", "Rejected"}

\* The instants at which a call may be made, seen from the current state.
Instants == {0, clock, clock + MAX_COOLDOWN_SECONDS}

C2_QuorumAtExecution ==
    /\ [](\A id \in DOMAIN transactions :
            (/\ transactions[id].status = "Pending"
             /\ clock >= transactions[id].execute_after
             /\ transactions[id].approval_count < governance_state.required_approvals)
            => \A supplied \in SuppliedAccounts :
                 LET result == execute_transaction(World, id, id, clock, supplied) IN
                 /\ result.err = "InsufficientApprovals"
                 /\ Commit(result, World) = World)
    /\ [][\A id \in DOMAIN transactions :
            (transactions[id].status = "Pending" /\ transactions'[id].status = "Executed")
            => transactions[id].approval_count >= governance_state.required_approvals]_vars

\* A Pending transaction past its cooldown holds the two approvals that met
\* the threshold it was queued under, and the threshold has since been raised.
C2_Witness ==
    \E id \in DOMAIN transactions :
        /\ transactions[id].status = "Pending"
        /\ clock >= transactions[id].execute_after
        /\ transactions[id].approval_count = MIN_REQUIRED_APPROVALS
        /\ governance_state.required_approvals > MIN_REQUIRED_APPROVALS

\* C3: a transaction becomes Executed only in a step taken at a clock value of
\* at least its execute_after, and an execute call on a Pending transaction
\* made before execute_after fails with CooldownNotExpired, whatever the
\* approvals, and leaves the transaction Pending.
C3_CooldownAtExecution ==
    /\ [](\A id \in DOMAIN transactions :
            (/\ transactions[id].status = "Pending"
             /\ clock < transactions[id].execute_after)
            => \A now \in {0, clock}, supplied \in SuppliedAccounts :
                 LET result == execute_transaction(World, id, id, now, supplied) IN
                 /\ result.err = "CooldownNotExpired"
                 /\ Commit(result, World) = World)
    /\ [][\A id \in DOMAIN transactions :
            (transactions[id].status = "Pending" /\ transactions'[id].status = "Executed")
            => clock >= transactions[id].execute_after]_vars

\* A Pending transaction has its quorum while the cooldown is still running.
C3_Witness ==
    \E id \in DOMAIN transactions :
        /\ transactions[id].status = "Pending"
        /\ clock < transactions[id].execute_after
        /\ clock > transactions[id].timestamp
        /\ transactions[id].approval_count >= governance_state.required_approvals

C5_StatusTransitions ==
    [][\A id \in DOMAIN transactions :
        /\ id \in DOMAIN transactions'
        /\ (transactions'[id].status # transactions[id].status) =>
            /\ transactions[id].status = "Pending"
            /\ \/ /\ transactions'[id].status = "Executed"
                  /\ \E supplied \in SuppliedAccounts :
                       LET result == execute_transaction(World, id, id, clock, supplied) IN
                       result.err = "Ok" /\ World' = result.world
               \/ /\ transactions'[id].status = "Rejected"
                  /\ \E approver \in Callers, reason \in Reasons :
                       LET result == reject_transaction(World, id, id, approver, reason) IN
                       result.err = "Ok" /\ World' = result.world]_vars

\* A transaction has been rejected after its quorum was met.
C5_Witness ==
    \E id \in DOMAIN transactions :
        /\ transactions[id].status = "Rejected"
        /\ transactions[id].approval_count >= governance_state.required_approvals

C7_ApproveOnlyRecords ==
    \A id \in DOMAIN transactions, tx_id \in TxIdInputs, approver \in Callers :
        LET result == approve_transaction(World, id, tx_id, approver) IN
        result.err = "Ok" =>
            /\ result.world.txs[id].status = "Pending"
            /\ result.world =
                 [World EXCEPT !.txs[id].approvals = Append(@, approver),
                               !.txs[id].approval_count = @ + 1]

\* A transaction is still Pending with the quorum exactly met and the cooldown
\* expired: the approval that met the quorum did not execute it.
C7_Witness ==
    \E id \in DOMAIN transactions :
        /\ transactions[id].status = "Pending"
        /\ clock >= transactions[id].execute_after
        /\ transactions[id].approval_count = governance_state.required_approvals
        /\ applied[id] = 0
        /\ governance_state.required_approvals = MIN_REQUIRED_APPROVALS

\* The outcomes of every queue call that can be made in the current state.
QueueCalls ==
    UNION {
        {queue_unpause(World, i, clock) : i \in Initiators},
        {queue_set_blacklist(World, x[1], x[2], x[3], clock) :
            x \in Initiators \X AccountInputs \X BOOLEAN},
        {queue_set_no_sell_limit(World, x[1], x[2], x[3], clock) :
            x \in Initiators \X AccountInputs \X BOOLEAN},
        {queue_set_restricted(World, x[1], x[2], x[3], clock) :
            x \in Initiators \X AccountInputs \X BOOLEAN},
        {queue_set_liquidity_pool(World, x[1], x[2], x[3], clock) :
            x \in Initiators \X AccountInputs \X BOOLEAN},
        {queue_set_bridge_address(World, x[1], x[2], clock) : x \in Initiators \X AccountInputs},
        {queue_set_bond_address(World, x[1], x[2], clock) : x \in Initiators \X AccountInputs},
        {queue_set_treasury_address(World, x[1], x[2], clock) : x \in Initiators \X AccountInputs},
        {queue_withdraw_to_treasury(World, x[1], x[2], clock) : x \in Initiators \X AmountInputs},
        {queue_set_required_approvals(World, x[1], x[2], clock) : x \in Initiators \X QueuedRequired},
        {queue_set_cooldown_period(World, x[1], x[2], clock) : x \in Initiators \X QueuedPeriods}}

\* C8: the transactions that exist are exactly those with ids 1 up to
\* next_transaction_id - 1, each stored under its own id; a successful queue
\* call of any kind creates the transaction whose id is next_transaction_id
\* before the call and leaves next_transaction_id one larger, and a failing
\* queue call changes neither next_transaction_id nor the transactions.
C8_SequentialIds ==
    /\ governance_state.initialized =>
          DOMAIN transactions = 1..(governance_state.next_transaction_id - 1)
    /\ \A id \in DOMAIN transactions : transactions[id].id = id
    /\ \A result \in QueueCalls :
          LET tx_id == governance_state.next_transaction_id
              after == Commit(result, World)
          IN  IF result.err = "Ok"
              THEN /\ after.gov.next_transaction_id = tx_id + 1
                   /\ DOMAIN after.txs = DOMAIN transactions \cup {tx_id}
                   /\ tx_id \notin DOMAIN transactions
                   /\ after.txs[tx_id].id = tx_id
                   /\ \A id \in DOMAIN transactions : after.txs[id] = transactions[id]
              ELSE /\ after.gov.next_transaction_id = tx_id
                   /\ after.txs = transactions

\* Two transactions of different kinds hold the ids 1 and 2.
C8_Witness ==
    /\ governance_state.next_transaction_id = 3
    /\ DOMAIN transactions = {1, 2}
    /\ transactions[1].tx_type # transactions[2].tx_type

C10_RequiredApprovalsBounds ==
    /\ governance_state.initialized =>
          /\ governance_state.required_approvals >= MIN_REQUIRED_APPROVALS
          /\ governance_state.required_approvals <= Len(governance_state.signers)
    /\ \A id \in DOMAIN transactions, supplied \in SuppliedAccounts :
          LET tx == transactions[id]
              result == execute_transaction(World, id, id, clock, supplied)
              value == tx.data[1]
              in_range == /\ value >= MIN_REQUIRED_APPROVALS
                          /\ value <= Len(governance_state.signers)
          IN  (/\ tx.tx_type = "SetRequiredApprovals"
               /\ tx.status = "Pending"
               /\ clock >= tx.execute_after
               /\ tx.approval_count >= governance_state.required_approvals)
              => IF in_range
                 THEN /\ result.err = "Ok"
                      /\ Commit(result, World).gov.required_approvals = value
                 ELSE /\ result.err \in {"RequiredApprovalsTooLow", "RequiredApprovalsTooHigh"}
                      /\ Commit(result, World) = World

\* A SetRequiredApprovals transaction has been executed and its value is the
\* stored threshold.
C10_Witness ==
    \E id \in DOMAIN transactions :
        /\ transactions[id].tx_type = "SetRequiredApprovals"
        /\ transactions[id].status = "Executed"
        /\ governance_state.required_approvals = transactions[id].data[1]
        /\ governance_state.required_approvals > MIN_REQUIRED_APPROVALS

\* C11: once initialized, MIN_COOLDOWN_SECONDS <= cooldown_period <=
\* MAX_COOLDOWN_SECONDS in every state, whatever initialize call was accepted
\* and whatever direct set_cooldown_period calls followed.
C11_CooldownBounds ==
    governance_state.initialized =>
        /\ governance_state.cooldown_period >= MIN_COOLDOWN_SECONDS
        /\ governance_state.cooldown_period <= MAX_COOLDOWN_SECONDS

PairwiseDistinct(seq) == \A i, j \in 1..Len(seq) : i # j => seq[i] # seq[j]

\* The errors that name a condition the arguments of initialize violate.
InitializeErrors(required, period, signers) ==
    UNION {
        IF required < MIN_REQUIRED_APPROVALS THEN {"RequiredApprovalsTooLow"} ELSE {},
        IF required > Len(signers) THEN {"RequiredApprovalsTooHigh"} ELSE {},
        IF period < MIN_COOLDOWN_SECONDS THEN {"CooldownPeriodTooLow"} ELSE {},
        IF Len(signers) < 1 \/ Len(signers) > MAX_SIGNERS
            THEN {"InvalidRequiredApprovals"} ELSE {},
        IF ~PairwiseDistinct(signers) THEN {"DuplicateSigners"} ELSE {}}

QueueCallsBy(initiator) ==
    UNION {
        {[needs |-> "token", result |-> queue_unpause(World, initiator, clock)]},
        {[needs |-> "token", result |-> r] : r \in UNION {
            {queue_set_blacklist(World, initiator, x[1], x[2], clock),
             queue_set_no_sell_limit(World, initiator, x[1], x[2], clock),
             queue_set_restricted(World, initiator, x[1], x[2], clock),
             queue_set_liquidity_pool(World, initiator, x[1], x[2], clock)} :
                x \in AccountInputs \X BOOLEAN}},
        {[needs |-> "token", result |-> r] : r \in UNION {
            {queue_set_bridge_address(World, initiator, a, clock),
             queue_set_bond_address(World, initiator, a, clock)} : a \in AccountInputs}},
        {[needs |-> "presale", result |-> queue_set_treasury_address(World, initiator, a, clock)] :
            a \in AccountInputs},
        {[needs |-> "presale", result |-> queue_withdraw_to_treasury(World, initiator, a, clock)] :
            a \in AmountInputs},
        {[needs |-> "none", result |-> queue_set_required_approvals(World, initiator, r, clock)] :
            r \in QueuedRequired},
        {[needs |-> "none", result |-> queue_set_cooldown_period(World, initiator, q, clock)] :
            q \in QueuedPeriods}}

NonSigners == {c \in Callers : ~is_authorized_signer(governance_state, c)}

C14_RejectContract ==
    \A id \in DOMAIN transactions :
        /\ transactions[id].status = "Rejected" =>
              /\ is_authorized_signer(governance_state, transactions[id].rejector)
              /\ Len(transactions[id].rejection_reason) \in 1..MAX_REASON_LEN
        /\ \A tx_id \in TxIdInputs, caller \in Callers, reason \in Reasons :
              LET result == reject_transaction(World, id, tx_id, caller, reason)
                  after == Commit(result, World)
                  allowed == /\ is_authorized_signer(governance_state, caller)
                             /\ transactions[id].id = tx_id
                             /\ transactions[id].status = "Pending"
              IN  IF allowed /\ Len(reason) \in 1..MAX_REASON_LEN
                  THEN /\ result.err = "Ok"
                       /\ after = [World EXCEPT !.txs[id].status = "Rejected",
                                                !.txs[id].rejection_reason = reason,
                                                !.txs[id].rejector = caller]
                  ELSE /\ result.err # "Ok"
                       /\ after = World
                       /\ after.txs[id].status = transactions[id].status
                       /\ (allowed /\ Len(reason) = 0) => result.err = "EmptyRejectionReason"

\* A transaction has been rejected by SignerC with a three-byte reason.
C14_Witness ==
    \E id \in DOMAIN transactions :
        /\ transactions[id].status = "Rejected"
        /\ transactions[id].rejector = SignerC
        /\ Len(transactions[id].rejection_reason) = 3

\* The errors of the kind-specific preconditions a queue call violates.
TokenProgramUnset ==
    IF ~governance_state.token_program_set THEN {"TokenProgramNotSet"} ELSE {}
PresaleProgramUnset ==
    IF ~governance_state.presale_program_set THEN {"PresaleProgramNotSet"} ELSE {}
AddressUnset(address) == IF address = DefaultPubkey THEN {"InvalidAccount"} ELSE {}
AmountUnset(amount) == IF ~(amount > 0) THEN {"InvalidAmount"} ELSE {}
RequiredOutOfBounds(required) ==
    (IF required < MIN_REQUIRED_APPROVALS THEN {"RequiredApprovalsTooLow"} ELSE {})
    \cup (IF required > Len(governance_state.signers) THEN {"RequiredApprovalsTooHigh"} ELSE {})
PeriodOutOfBounds(period) ==
    (IF period < MIN_COOLDOWN_SECONDS THEN {"CooldownPeriodTooLow"} ELSE {})
    \cup (IF period > MAX_COOLDOWN_SECONDS THEN {"CooldownPeriodTooHigh"} ELSE {})

\* Every queue call `initiator` can make in the current state: the errors of
\* its violated preconditions and its outcome.
QueueAttempts(initiator) ==
    UNION {
        {[violated |-> TokenProgramUnset,
          result |-> queue_unpause(World, initiator, clock)]},
        UNION {
            {[violated |-> TokenProgramUnset \cup AddressUnset(x[1]), result |-> r] :
                r \in {queue_set_blacklist(World, initiator, x[1], x[2], clock),
                       queue_set_no_sell_limit(World, initiator, x[1], x[2], clock),
                       queue_set_restricted(World, initiator, x[1], x[2], clock),
                       queue_set_liquidity_pool(World, initiator, x[1], x[2], clock)}} :
            x \in AccountInputs \X BOOLEAN},
        UNION {
            {[violated |-> TokenProgramUnset \cup AddressUnset(a), result |-> r] :
                r \in {queue_set_bridge_address(World, initiator, a, clock),
                       queue_set_bond_address(World, initiator, a, clock)}} :
            a \in AccountInputs},
        {[violated |-> PresaleProgramUnset \cup AddressUnset(a),
          result |-> queue_set_treasury_address(World, initiator, a, clock)] :
            a \in AccountInputs},
        {[violated |-> PresaleProgramUnset \cup AmountUnset(n),
          result |-> queue_withdraw_to_treasury(World, initiator, n, clock)] :
            n \in AmountInputs},
        {[violated |-> RequiredOutOfBounds(r),
          result |-> queue_set_required_approvals(World, initiator, r, clock)] :
            r \in QueuedRequired \cup {MIN_REQUIRED_APPROVALS}},
        {[violated |-> PeriodOutOfBounds(q),
          result |-> queue_set_cooldown_period(World, initiator, q, clock)] :
            q \in QueuedPeriods}}

\* C15: a queue call that violates a precondition of its kind (program not
\* set, default address, amount 0, value out of bounds) fails with the error
\* of a violated precondition (or NotAuthorizedSigner when the caller is no
\* signer either), creates no transaction and leaves next_transaction_id as
\* it was; a signer's call that violates none succeeds.
C15_QueuePreconditions ==
    governance_state.initialized =>
        \A initiator \in Initiators :
            \A attempt \in QueueAttempts(initiator) :
                LET after == Commit(attempt.result, World) IN
                IF attempt.violated # {}
                THEN /\ attempt.result.err \in attempt.violated \cup
                          (IF is_authorized_signer(governance_state, initiator)
                           THEN {} ELSE {"NotAuthorizedSigner"})
                     /\ after.txs = transactions
                     /\ after.gov.next_transaction_id = governance_state.next_transaction_id
                     /\ after = World
                ELSE is_authorized_signer(governance_state, initiator)
                        => attempt.result.err = "Ok"

\* The token program is set and the presale program is not, with one
\* transaction queued: some kinds have their precondition and some do not.
C15_Witness ==
    /\ governance_state.token_program_set
    /\ ~governance_state.presale_program_set
    /\ Queued = 1

\* The world after `first` and `second` approve the transaction `id` of `w`.
ApprovedBy(w, id, first, second) ==
    approve_transaction(approve_transaction(w, id, id, first).world, id, id, second).world

\* Queue `queued` (the outcome of a queue call), have SignerA and SignerB
\* approve it, and execute it at `now`.
QueueApproveExecute(queued, now) ==
    LET id == governance_state.next_transaction_id IN
    execute_transaction(ApprovedBy(queued.world, id, SignerA, SignerB), id, id, now,
                        [target_account |-> Target1, pool_address |-> Target1])

\* C16: executing a Pending SetCooldownPeriod(p) transaction with quorum at
\* now >= execute_after sets cooldown_period to the queued p, executing a
\* SetRequiredApprovals(r) transaction sets required_approvals to the queued
\* r, and the execute changes nothing else than that field, the status of the
\* transaction and its count of applied effects. Queued by a signer, approved
\* by SignerA and SignerB under a threshold of 2, the transaction fails with
\* CooldownNotExpired one second before execute_after and succeeds at
\* execute_after.
C16_ExecuteSetsQueuedValue ==
    /\ \A id \in DOMAIN transactions, supplied \in SuppliedAccounts :
          LET tx == transactions[id]
              result == execute_transaction(World, id, id, clock, supplied)
              executed == [World EXCEPT !.txs[id].status = "Executed",
                                        !.applied[id] = @ + 1]
          IN  (/\ tx.status = "Pending"
               /\ clock >= tx.execute_after
               /\ tx.approval_count >= governance_state.required_approvals)
              => /\ tx.tx_type = "SetCooldownPeriod" =>
                      /\ result.err = "Ok"
                      /\ result.world =
                           [executed EXCEPT !.gov.cooldown_period =
                                               from_le_signed(SubSeq(tx.data, 1, 8))]
                 /\ tx.tx_type = "SetRequiredApprovals" =>
                      /\ result.err = "Ok"
                      /\ result.world =
                           [executed EXCEPT !.gov.required_approvals = tx.data[1]]
    /\ (/\ governance_state.initialized
        /\ governance_state.required_approvals = MIN_REQUIRED_APPROVALS
        /\ Len(governance_state.signers) = 3)
       => LET due == clock + governance_state.cooldown_period IN
          /\ \A p \in {MIN_COOLDOWN_SECONDS, 2 * MIN_COOLDOWN_SECONDS, MAX_COOLDOWN_SECONDS} :
                LET queued == queue_set_cooldown_period(World, SignerA, p, clock) IN
                /\ queued.err = "Ok"
                /\ QueueApproveExecute(queued, due - 1).err = "CooldownNotExpired"
                /\ QueueApproveExecute(queued, due).err = "Ok"
                /\ QueueApproveExecute(queued, due).world.gov =
                      [governance_state EXCEPT !.cooldown_period = p,
                                               !.next_transaction_id = @ + 1]
          /\ \A r \in {2, 3} :
                LET queued == queue_set_required_approvals(World, SignerA, r, clock) IN
                /\ queued.err = "Ok"
                /\ QueueApproveExecute(queued, due - 1).err = "CooldownNotExpired"
                /\ QueueApproveExecute(queued, due).err = "Ok"
                /\ QueueApproveExecute(queued, due).world.gov =
                      [governance_state EXCEPT !.required_approvals = r,
                                               !.next_transaction_id = @ + 1]

\* The scenario of the specification has run: signers [A, B, C], a
\* SetCooldownPeriod(3600) queued at 0 under a cooldown of 1800, approved by A
\* and B, executed at 1800, and cooldown_period is 3600.
C16_Witness ==
    /\ governance_state.signers = <<SignerA, SignerB, SignerC>>
    /\ governance_state.cooldown_period = 2 * MIN_COOLDOWN_SECONDS
    /\ clock = MIN_COOLDOWN_SECONDS
    /\ \E id \in DOMAIN transactions :
        /\ transactions[id].tx_type = "SetCooldownPeriod"
        /\ transactions[id].status = "Executed"
        /\ transactions[id].timestamp = 0
        /\ transactions[id].execute_after = MIN_COOLDOWN_SECONDS
        /\ transactions[id].approvals = <<SignerA, SignerB>>

FlagKinds == {"Blacklist", "NoSellLimit", "Restrict", "Pair"}

\* The supplied account the dispatcher compares with the decoded address.
SuppliedFor(tx, supplied) ==
    IF tx.tx_type = "Pair" THEN supplied.pool_address ELSE supplied.target_account

RoundTripAddresses ==
    {Pubkey(255), Pubkey(256), Target1, Target2, Pubkey(16777471), Pubkey(2147483647)}

\* The outcomes of the four (address, flag) queue calls, by kind.
QueueFlag(kind, a, b) ==
    CASE kind = "Blacklist" -> queue_set_blacklist(World, SignerA, a, b, clock)
      [] kind = "NoSellLimit" -> queue_set_no_sell_limit(World, SignerA, a, b, clock)
      [] kind = "Restrict" -> queue_set_restricted(World, SignerA, a, b, clock)
      [] kind = "Pair" -> queue_set_liquidity_pool(World, SignerA, a, b, clock)

\* The record of the token program that a transaction of `kind` writes.
FlagRecord(token, kind, a) ==
    CASE kind = "Blacklist" -> token.blacklist[a]
      [] kind = "NoSellLimit" -> token.no_sell_limit[a]
      [] kind = "Restrict" -> token.restricted[a]
      [] kind = "Pair" -> token.liquidity_pool[a]

\* C18: the data of every Blacklist, NoSellLimit, Restrict and Pair
\* transaction is 33 bytes, its first 32 decode to the transaction's target
\* and its last is 0 or 1; for every address a and boolean b the four queue
\* calls store data that decodes to exactly (a, b) with target a, and
\* executing the queued transaction hands exactly (a, b) to the token program.
C18_PayloadRoundTrip ==
    /\ \A id \in DOMAIN transactions :
          transactions[id].tx_type \in FlagKinds =>
             /\ Len(transactions[id].data) = PUBKEY_BYTES + 1
             /\ decode_pubkey(transactions[id].data) = transactions[id].target
             /\ transactions[id].data[PUBKEY_BYTES + 1] \in {0, 1}
    /\ (governance_state.initialized /\ governance_state.token_program_set) =>
          \A kind \in FlagKinds, a \in RoundTripAddresses, b \in BOOLEAN :
             LET queued == QueueFlag(kind, a, b)
                 tx == queued.world.txs[governance_state.next_transaction_id]
             IN  /\ queued.err = "Ok"
                 /\ tx.tx_type = kind
                 /\ Len(tx.data) = PUBKEY_BYTES + 1
                 /\ decode_pubkey(tx.data) = a
                 /\ (tx.data[PUBKEY_BYTES + 1] # 0) = b
                 /\ tx.data[PUBKEY_BYTES + 1] = (IF b THEN 1 ELSE 0)
                 /\ tx.target = a
    /\ (governance_state.initialized /\ governance_state.token_program_set) =>
          \A kind \in FlagKinds, a \in FlagHolders, b \in BOOLEAN :
             LET id == governance_state.next_transaction_id
                 approved == ApprovedBy(QueueFlag(kind, a, b).world, id, SignerA, SignerB)
                 result == execute_transaction(approved, id, id,
                              clock + governance_state.cooldown_period,
                              [target_account |-> a, pool_address |-> a])
                 refused == /\ kind = "Blacklist" /\ b
                            /\ token_state.blacklist[a] = [account |-> a, is_set |-> TRUE]
             IN  IF refused THEN result.err = "TokenError::Unauthorized"
                 ELSE /\ result.err = "Ok"
                      /\ FlagRecord(result.world.token, kind, a) = [account |-> a, is_set |-> b]

\* A flag transaction on a two-byte address has been executed and the token
\* program holds the record for that address.
C18_Witness ==
    \E id \in DOMAIN transactions :
        /\ transactions[id].tx_type \in FlagKinds
        /\ transactions[id].status = "Executed"
        /\ transactions[id].target = Target1
        /\ transactions[id].data[2] = 1
        /\ FlagRecord(token_state, transactions[id].tx_type, Target1).account = Target1

\* C19: while a program is not set, a call of its setter by the authority with
\* a non-default address succeeds; a call by anyone else fails with
\* Unauthorized; once set, a further call by the authority fails with
\* TokenProgramAlreadySet / PresaleProgramAlreadySet, and no step changes the
\* stored address or clears the flag.
C19_OneTimeSetters ==
    /\ [](governance_state.initialized =>
            \A caller \in Callers, program \in ProgramInputs :
                LET token == set_token_program(World, caller, program)
                    presale == set_presale_program(World, caller, program)
                IN  /\ caller # governance_state.authority =>
                          /\ token.err = "Unauthorized"
                          /\ presale.err = "Unauthorized"
                    /\ (caller = governance_state.authority /\ program # DefaultPubkey) =>
                          /\ token.err = IF governance_state.token_program_set
                                         THEN "TokenProgramAlreadySet" ELSE "Ok"
                          /\ presale.err = IF governance_state.presale_program_set
                                           THEN "PresaleProgramAlreadySet" ELSE "Ok"
                          /\ token.err = "Ok" =>
                                token.world.gov = [governance_state EXCEPT
                                    !.token_program = program, !.token_program_set = TRUE]
                          /\ presale.err = "Ok" =>
                                presale.world.gov = [governance_state EXCEPT
                                    !.presale_program = program, !.presale_program_set = TRUE])
    /\ [][/\ governance_state.token_program_set =>
                /\ governance_state'.token_program_set
                /\ governance_state'.token_program = governance_state.token_program
          /\ governance_state.presale_program_set =>
                /\ governance_state'.presale_program_set
                /\ governance_state'.presale_program = governance_state.presale_program]_vars

\* The purchases a buyer may attempt in the current state: the call, the tokens
\* it is for, and its outcome.
BuyAttempts ==
    {[call |-> "buy", buyer |-> x[1], paid |-> x[2], tokens |-> x[2], supplied |-> x[3],
      result |-> buy(World, x[1], x[2], x[3])] :
        x \in Buyers \X {0, 50, 60} \X
              [buyer_blacklist : {DefaultPubkey, Target1}, buyer_accounts_valid : BOOLEAN,
               vaults_valid : BOOLEAN, payment_balance : {0, 1000}, lamports : {1000},
               feed : {GenuineFeed(clock)}]}

\* The amount a buy_with_sol of sol_amount lamports is to deliver at the oracle
\* price sol_price_usd: floor(sol_amount * sol_price_usd * 10^6 * 10^8
\* / (token_price_usd_micro * 10^9 * 10^8)), the common factor 10^14 cancelled.
tokens_for_sol(sol_amount, sol_price_usd, token_price_usd_micro) ==
    (sol_amount * sol_price_usd)
        \div (token_price_usd_micro * 10 ^ (SOL_DECIMALS + CHAINLINK_DECIMALS
                                            - 6 - TOKEN_DECIMALS))

BuyWithSolAttempts ==
    {[call |-> "buy_with_sol", buyer |-> x[1], paid |-> x[2],
      tokens |-> tokens_for_sol(x[2], value_of(x[3].feed.answer.magnitude),
                                presale_state.token_price_usd_micro),
      supplied |-> x[3],
      result |-> buy_with_sol(World, x[1], x[2], clock, x[3])] :
        x \in Buyers \X {0, 25, 30} \X
              [buyer_blacklist : {DefaultPubkey, Target1}, buyer_accounts_valid : {TRUE},
               vaults_valid : BOOLEAN, payment_balance : {1000}, lamports : {0, 1000},
               feed : Feeds(clock)
                      \cup {[GenuineFeed(clock) EXCEPT !.owner = Outsider]}]}

PurchaseAttempts == BuyAttempts \cup BuyWithSolAttempts

\* The purchase would take the buyer's total over the per-user limit in force.
OverPerUserLimit(attempt) ==
    /\ presale_state.max_per_user > 0
    /\ presale_state.user_purchase[attempt.buyer].total_purchased + attempt.tokens
          > presale_state.max_per_user

\* The three totals of the claim, as the attempt leaves them.
SaleTotals(presale, buyer) ==
    <<presale.user_purchase[buyer].total_purchased, presale.total_tokens_sold,
      presale.total_raised>>

TotalsKept(attempt) ==
    SaleTotals(Commit(attempt.result, World).presale, attempt.buyer)
        = SaleTotals(presale_state, attempt.buyer)

\* Everything buy and buy_with_sol test before the per-user limit is in order.
ReachesPerUserCheck(attempt) ==
    /\ presale_state.status = "Active"
    /\ ~token_state.emergency_paused
    /\ ~buyer_blacklisted(World, attempt.supplied.buyer_blacklist)
    /\ ~(presale_state.max_presale_cap > 0
          /\ presale_state.total_tokens_sold + attempt.tokens
                > presale_state.max_presale_cap)
    /\ attempt.call = "buy" =>
          presale_state.is_allowed /\ attempt.supplied.buyer_accounts_valid
    /\ attempt.call = "buy_with_sol" =>
          /\ attempt.paid > 0
          /\ attempt.supplied.lamports >= attempt.paid
          /\ attempt.supplied.feed = GenuineFeed(clock)
          /\ attempt.tokens > 0

\* C20, as the specification words it: when max_per_user > 0, every buy and
\* buy_with_sol whose tokens would take the buyer's total_purchased over
\* max_per_user fails with PerUserLimitExceeded and leaves that total,
\* total_tokens_sold and total_raised unchanged.
C20_AlwaysPerUserLimitExceeded ==
    \A attempt \in PurchaseAttempts :
        OverPerUserLimit(attempt) =>
            /\ attempt.result.err = "PresaleError::PerUserLimitExceeded"
            /\ TotalsKept(attempt)

\* C20: when max_per_user > 0, every buy and buy_with_sol whose tokens would
\* take the buyer's total_purchased over max_per_user fails and leaves that
\* total, total_tokens_sold and total_raised unchanged; the error is
\* PerUserLimitExceeded when everything the handler tests before the per-user
\* limit is in order, and otherwise that of the first test that fails.
C20_OverLimitPurchaseFails ==
    \A attempt \in PurchaseAttempts :
        OverPerUserLimit(attempt) =>
            /\ attempt.result.err # "Ok"
            /\ TotalsKept(attempt)
            /\ ReachesPerUserCheck(attempt) =>
                  attempt.result.err = "PresaleError::PerUserLimitExceeded"
            /\ ~ReachesPerUserCheck(attempt) =>
                  attempt.result.err \in
                      {"PresaleError::PresaleNotActive", "PresaleError::InvalidAmount",
                       "PresaleError::TokenEmergencyPaused",
                       "PresaleError::BuyerBlacklisted",
                       "PresaleError::PaymentTokenNotAllowed",
                       "PresaleError::InvalidPrice", "PresaleError::PresaleCapExceeded"}

\* With a per-user limit of 100 and no presale cap, Buyer1 has bought 60; a buy
\* of 50 and a buy_with_sol worth 50 tokens both fail with PerUserLimitExceeded.
C20_Witness ==
    /\ presale_state.max_per_user = 100
    /\ presale_state.max_presale_cap = 0
    /\ presale_state.user_purchase[Buyer1].total_purchased = 60
    /\ \E attempt \in PurchaseAttempts :
          /\ attempt.call = "buy" /\ attempt.buyer = Buyer1 /\ attempt.tokens = 50
          /\ attempt.result.err = "PresaleError::PerUserLimitExceeded"
    /\ \E attempt \in PurchaseAttempts :
          /\ attempt.call = "buy_with_sol" /\ attempt.buyer = Buyer1
          /\ attempt.tokens = 50
          /\ attempt.result.err = "PresaleError::PerUserLimitExceeded"

\* The purchase would take total_tokens_sold over the presale cap in force.
OverPresaleCap(attempt) ==
    /\ presale_state.max_presale_cap > 0
    /\ presale_state.total_tokens_sold + attempt.tokens > presale_state.max_presale_cap

\* Everything buy and buy_with_sol test before the presale cap is in order.
ReachesCapCheck(attempt) ==
    /\ presale_state.status = "Active"
    /\ ~token_state.emergency_paused
    /\ ~buyer_blacklisted(World, attempt.supplied.buyer_blacklist)
    /\ attempt.call = "buy" =>
          presale_state.is_allowed /\ attempt.supplied.buyer_accounts_valid
    /\ attempt.call = "buy_with_sol" =>
          /\ attempt.paid > 0
          /\ attempt.supplied.lamports >= attempt.paid
          /\ attempt.supplied.feed = GenuineFeed(clock)
          /\ attempt.tokens > 0

\* C21, as the specification words it: when max_presale_cap > 0, every buy and
\* buy_with_sol with total_tokens_sold + tokens > max_presale_cap fails with
\* PresaleCapExceeded and changes no total.
C21_AlwaysPresaleCapExceeded ==
    \A attempt \in PurchaseAttempts :
        OverPresaleCap(attempt) =>
            /\ attempt.result.err = "PresaleError::PresaleCapExceeded"
            /\ TotalsKept(attempt)

\* C21: when max_presale_cap > 0, a buy or buy_with_sol succeeds only if
\* total_tokens_sold + tokens <= max_presale_cap; otherwise it fails and
\* changes no total, with PresaleCapExceeded when everything the handler tests
\* before the cap is in order and with the error of the first failing test
\* otherwise; and no step that changes total_tokens_sold takes it above the
\* cap in force.
C21_PurchaseWithinCap ==
    /\ [](\A attempt \in PurchaseAttempts :
            OverPresaleCap(attempt) =>
                /\ attempt.result.err # "Ok"
                /\ TotalsKept(attempt)
                /\ ReachesCapCheck(attempt) =>
                      attempt.result.err = "PresaleError::PresaleCapExceeded"
                /\ ~ReachesCapCheck(attempt) =>
                      attempt.result.err \in
                          {"PresaleError::PresaleNotActive", "PresaleError::InvalidAmount",
                           "PresaleError::TokenEmergencyPaused",
                           "PresaleError::BuyerBlacklisted",
                           "PresaleError::PaymentTokenNotAllowed",
                           "PresaleError::InvalidPrice"})
    /\ [][(presale_state'.total_tokens_sold # presale_state.total_tokens_sold
            /\ presale_state.max_presale_cap > 0) =>
              /\ presale_state'.max_presale_cap = presale_state.max_presale_cap
              /\ presale_state'.total_tokens_sold <= presale_state.max_presale_cap]_vars

\* Under a presale cap of 150, 100 tokens are sold, all checks before the cap
\* pass, and a buy of 60 and a buy_with_sol worth 60 tokens both fail with
\* PresaleCapExceeded, while a buy of 50 is accepted.
C21_Witness ==
    /\ presale_state.max_presale_cap = 150
    /\ presale_state.total_tokens_sold = 100
    /\ \E attempt \in PurchaseAttempts :
          /\ attempt.call = "buy" /\ attempt.tokens = 60
          /\ attempt.result.err = "PresaleError::PresaleCapExceeded"
    /\ \E attempt \in PurchaseAttempts :
          /\ attempt.call = "buy_with_sol" /\ attempt.tokens = 60
          /\ attempt.result.err = "PresaleError::PresaleCapExceeded"
    /\ \E attempt \in PurchaseAttempts :
          /\ attempt.tokens = 50
          /\ attempt.result.err = "Ok"
          /\ attempt.result.world.presale.total_tokens_sold = 150

\* C22: whenever max_per_user > 0 and max_presale_cap > 0, the per-user limit
\* does not exceed the presale cap: max_per_user <= max_presale_cap.
C22_PerUserWithinCap ==
    (presale_state.max_per_user > 0 /\ presale_state.max_presale_cap > 0) =>
        presale_state.max_per_user <= presale_state.max_presale_cap

\* The calls of the three limit entry points, by every caller with every argument.
LimitCalls ==
    {update_presale_cap(World, x[1], x[2]) : x \in SaleCallers \X LimitInputs}
    \cup {update_max_per_user(World, x[1], x[2]) : x \in SaleCallers \X LimitInputs}
    \cup {update_presale_limits(World, x[1], x[2], x[3]) :
              x \in SaleCallers \X LimitOptions \X LimitOptions}

\* C23: once status is Stopped, every update_presale_cap, update_max_per_user
\* and update_presale_limits call fails, whoever calls and whatever the
\* arguments, and no step changes max_presale_cap or max_per_user (or leaves
\* Stopped) any more.
C23_StoppedLimitsFrozen ==
    /\ [](presale_state.status = "Stopped" =>
            \A result \in LimitCalls :
                result.err # "Ok" /\ Commit(result, World) = World)
    /\ [][presale_state.status = "Stopped" =>
              /\ presale_state'.status = "Stopped"
              /\ presale_state'.max_presale_cap = presale_state.max_presale_cap
              /\ presale_state'.max_per_user = presale_state.max_per_user]_vars

\* The presale is Stopped with both limits set; the admin's call to lift the
\* cap, acceptable in every other respect, is refused for the status.
C23_Witness ==
    /\ presale_state.status = "Stopped"
    /\ presale_state.max_presale_cap = 150
    /\ presale_state.max_per_user = 100
    /\ update_presale_cap(World, Admin, 0).err = "PresaleError::InvalidStatus"
    /\ update_max_per_user(World, Admin, 40).err = "PresaleError::InvalidStatus"
    /\ update_presale_limits(World, Admin, Some(0), None).err
          = "PresaleError::InvalidStatus"

\* The calls of the presale program that are not start, pause or stop.
CallsBesideStatus ==
    LimitCalls
    \cup {allow_payment_token(World, admin) : admin \in SaleCallers}
    \cup {disallow_payment_token(World, admin) : admin \in SaleCallers}
    \cup {set_treasury_address(World, x[1], x[2]) : x \in SaleCallers \X AccountInputs}
    \cup {withdraw_to_treasury(World, x[1], x[2]) : x \in SaleCallers \X AmountInputs}
    \cup {buy(World, x[1], x[2], x[3]) :
              x \in Buyers \X BuyAmounts \X SuppliedPurchases(clock)}
    \cup {buy_with_sol(World, x[1], x[2], clock, x[3]) :
              x \in Buyers \X SolAmounts \X SuppliedPurchases(clock)}

\* C24: status moves only NotStarted -> Active and Paused -> Active, by
\* start_presale, Active -> Paused, by pause_presale, and Active -> Stopped, by
\* stop_presale; no other call changes it, nothing changes it once it is
\* Stopped, and NotStarted is never entered.
C24_StatusMoves ==
    /\ [](\A admin \in SaleCallers :
            LET started == start_presale(World, admin)
                paused == pause_presale(World, admin)
                stopped == stop_presale(World, admin)
            IN  /\ started.err = "Ok" =>
                      /\ presale_state.status \in {"NotStarted", "Paused"}
                      /\ started.world.presale.status = "Active"
                /\ paused.err = "Ok" =>
                      /\ presale_state.status = "Active"
                      /\ paused.world.presale.status = "Paused"
                /\ stopped.err = "Ok" =>
                      /\ presale_state.status = "Active"
                      /\ stopped.world.presale.status = "Stopped")
    /\ [](\A result \in CallsBesideStatus :
            Commit(result, World).presale.status = presale_state.status)
    /\ [][presale_state'.status # presale_state.status =>
              <<presale_state.status, presale_state'.status>> \in
                  {<<"NotStarted", "Active">>, <<"Paused", "Active">>,
                   <<"Active", "Paused">>, <<"Active", "Stopped">>}]_vars

\* The presale is Stopped after sales, and the admin's start_presale,
\* pause_presale and stop_presale are all refused for the status.
C24_Witness ==
    /\ presale_state.status = "Stopped"
    /\ presale_state.total_tokens_sold > 0
    /\ start_presale(World, Admin).err = "PresaleError::InvalidStatus"
    /\ pause_presale(World, Admin).err = "PresaleError::InvalidStatus"
    /\ stop_presale(World, Admin).err = "PresaleError::InvalidStatus"

\* The calls of the presale program that are not purchases.
CallsBesidePurchase ==
    LimitCalls
    \cup {start_presale(World, admin) : admin \in SaleCallers}
    \cup {pause_presale(World, admin) : admin \in SaleCallers}
    \cup {stop_presale(World, admin) : admin \in SaleCallers}
    \cup {allow_payment_token(World, admin) : admin \in SaleCallers}
    \cup {disallow_payment_token(World, admin) : admin \in SaleCallers}
    \cup {set_treasury_address(World, x[1], x[2]) : x \in SaleCallers \X AccountInputs}
    \cup {withdraw_to_treasury(World, x[1], x[2]) : x \in SaleCallers \X AmountInputs}

\* The totals of the sale: sold, raised, and what each buyer has bought.
AllTotals(presale) ==
    <<presale.total_tokens_sold, presale.total_raised,
      [b \in Buyers |-> presale.user_purchase[b].total_purchased]>>

\* C25: total_tokens_sold, total_raised and every total_purchased change only
\* in a step that is a successful buy or buy_with_sol made while status is
\* Active, and no other call changes them; a purchase attempted (with accounts
\* the program accepts) while status is NotStarted, Paused or Stopped fails
\* with PresaleNotActive and changes nothing.
C25_TotalsOnlyByActivePurchase ==
    /\ [](presale_state.status # "Active" =>
            \A attempt \in PurchaseAttempts :
                /\ attempt.result.err = "PresaleError::PresaleNotActive"
                /\ Commit(attempt.result, World) = World)
    /\ [](\A result \in CallsBesidePurchase :
            AllTotals(Commit(result, World).presale) = AllTotals(presale_state))
    /\ [][AllTotals(presale_state') # AllTotals(presale_state) =>
              /\ presale_state.status = "Active"
              /\ \E attempt \in PurchaseAttempts :
                    /\ attempt.result.err = "Ok"
                    /\ presale_state' = attempt.result.world.presale]_vars

\* The sale is Paused after Buyer1 bought 60; a buy and a buy_with_sol that an
\* Active sale would accept are refused with PresaleNotActive.
C25_Witness ==
    /\ presale_state.status = "Paused"
    /\ presale_state.is_allowed
    /\ presale_state.user_purchase[Buyer1].total_purchased = 60
    /\ presale_state.max_per_user = 0
    /\ presale_state.max_presale_cap = 0
    /\ ~token_state.emergency_paused
    /\ \E attempt \in PurchaseAttempts :
          /\ attempt.call = "buy" /\ attempt.tokens = 50
          /\ attempt.result.err = "PresaleError::PresaleNotActive"
          /\ buy([World EXCEPT !.presale.status = "Active"], attempt.buyer,
                 attempt.paid, attempt.supplied).err = "Ok"
    /\ \E attempt \in PurchaseAttempts :
          /\ attempt.call = "buy_with_sol" /\ attempt.tokens = 50
          /\ attempt.result.err = "PresaleError::PresaleNotActive"
          /\ buy_with_sol([World EXCEPT !.presale.status = "Active"], attempt.buyer,
                          attempt.paid, clock, attempt.supplied).err = "Ok"

\* The answer of the round is zero or below.
AnswerNotPositive(feed) == feed.answer.negative \/ feed.answer.magnitude = << >>

\* The buy_with_sol calls a buyer may attempt in the current state, at each
\* feed the oracle may present.
OracleAttempts ==
    {[buyer |-> x[1], sol_amount |-> x[2], supplied |-> x[3],
      result |-> buy_with_sol(World, x[1], x[2], clock, x[3])] :
        x \in Buyers \X {0, 1, 25, 30} \X OraclePurchases(clock)}

\* sol_amount * price * 10^6 * 10^8 and token_price_usd_micro * 10^9 * 10^8,
\* exactly.
ExactNumerator(sol_amount, price) ==
    product(product(product(digits_of(sol_amount), price), pow10(6)), pow10(8))
ExactDenominator(token_price_usd_micro) ==
    product(product(digits_of(token_price_usd_micro), pow10(9)), pow10(8))

\* tokens = floor(numerator / denominator)
IsFloor(tokens, numerator, denominator) ==
    /\ ~less(numerator, product(digits_of(tokens), denominator))
    /\ less(numerator, product(digits_of(tokens + 1), denominator))

\* Everything buy_with_sol tests before it computes the amount is in order.
ReachesAmount(attempt) ==
    /\ presale_state.status = "Active"
    /\ attempt.sol_amount > 0
    /\ attempt.supplied.lamports >= attempt.sol_amount
    /\ ~token_state.emergency_paused
    /\ ~buyer_blacklisted(World, attempt.supplied.buyer_blacklist)
    /\ attempt.supplied.feed.readable
    /\ ~attempt.supplied.feed.answer.negative
    /\ attempt.supplied.feed.answer.magnitude # << >>
    /\ attempt.supplied.feed.decimals = CHAINLINK_DECIMALS
    /\ clock - attempt.supplied.feed.timestamp <= PRICE_FEED_STALENESS_THRESHOLD_SECONDS
    /\ attempt.supplied.feed.owner = CHAINLINK_PROGRAM_ID
    /\ presale_state.token_price_usd_micro > 0

\* C26: every buy_with_sol that succeeds (oracle price > 0 and
\* token_price_usd_micro > 0) takes from the token vault, and adds to
\* total_tokens_sold and to the buyer's total_purchased, exactly
\* floor(sol_amount * price * 10^6 * 10^8 / (token_price_usd_micro * 10^9 * 10^8)),
\* rounded down and never up, and adds sol_amount to total_raised; a call whose
\* computed amount is 0 fails with InvalidAmount.
C26_TokensRoundedDown ==
    \A attempt \in OracleAttempts :
        LET numerator == ExactNumerator(attempt.sol_amount,
                                        attempt.supplied.feed.answer.magnitude)
            denominator == ExactDenominator(presale_state.token_price_usd_micro)
            after == attempt.result.world.presale
            delivered == presale_state.token_vault - after.token_vault
        IN  /\ attempt.result.err = "Ok" =>
                /\ ~AnswerNotPositive(attempt.supplied.feed)
                /\ presale_state.token_price_usd_micro > 0
                /\ IsFloor(delivered, numerator, denominator)
                /\ after.total_tokens_sold = presale_state.total_tokens_sold + delivered
                /\ after.user_purchase[attempt.buyer].total_purchased
                      = presale_state.user_purchase[attempt.buyer].total_purchased
                        + delivered
                /\ after.total_raised = presale_state.total_raised + attempt.sol_amount
            /\ (ReachesAmount(attempt) /\ less(numerator, denominator)) =>
                /\ attempt.result.err = "PresaleError::InvalidAmount"
                /\ Commit(attempt.result, World) = World

\* 25 lamports were sold at $0.02 per SOL and a token price of 7 micro-USD for
\* 7142 tokens, the quotient 7142.86 rounded down; the token price is now
\* 3,000,000 micro-USD, at which 25 lamports buy 0 tokens and the call is
\* refused with InvalidAmount.
C26_Witness ==
    /\ presale_state.status = "Active"
    /\ presale_state.total_tokens_sold = 7142
    /\ presale_state.total_raised = 25
    /\ presale_state.token_vault = OracleVaultAtStart - 7142
    /\ presale_state.token_price_usd_micro = 3000000
    /\ \E attempt \in OracleAttempts :
          /\ attempt.sol_amount = 25
          /\ attempt.supplied.feed.answer = I128(FALSE, digits_of(2000000))
          /\ ReachesAmount(attempt)
          /\ attempt.result.err = "PresaleError::InvalidAmount"

\* Amounts of lamports up to u64::MAX, oracle answers up to 10^30 and token
\* prices up to 10^19, as digits.
WideSolAmounts == {digits_of(1), digits_of(25), pow10(10), U64_MAX}
WideAnswers == {digits_of(2000000), digits_of(3333333), pow10(15), pow10(22), pow10(30)}
WideTokenPrices == {digits_of(7), digits_of(1000), pow10(19)}

\* What buy_with_sol takes as the amount: the checked quotient when it fits a
\* u64, None when the call answers Overflow.
AmountOrOverflow(sol_amount, price, token_price_usd_micro) ==
    LET amount == tokens_to_receive_u128(sol_amount, price, token_price_usd_micro)
    IN  IF amount = None THEN None
        ELSE IF less(U64_MAX, amount[1]) THEN None
        ELSE amount

\* The exact products of the amount, on digits.
WideNumerator(sol_amount, price) ==
    product(product(product(sol_amount, price), pow10(6)), pow10(8))
WideDenominator(token_price_usd_micro) ==
    product(product(token_price_usd_micro, pow10(9)), pow10(8))

\* The amount is the exact quotient rounded down whenever the exact numerator
\* fits 128 bits and the quotient fits 64, and Overflow otherwise; and it does
\* not decrease when sol_amount or the price grows.
AmountExactOrOverflow ==
    \A sol_amount \in WideSolAmounts, price \in WideAnswers,
       token_price_usd_micro \in WideTokenPrices :
        LET amount == AmountOrOverflow(sol_amount, price, token_price_usd_micro)
            numerator == WideNumerator(sol_amount, price)
            denominator == WideDenominator(token_price_usd_micro)
            exact == quotient(numerator, denominator)
        IN  /\ (less(U128_MAX, numerator) \/ less(U64_MAX, exact)) => amount = None
            /\ amount # None =>
                  /\ ~less(numerator, product(amount[1], denominator))
                  /\ less(numerator, product(sum(amount[1], digits_of(1)), denominator))
            /\ \A more \in WideSolAmounts :
                  LET larger == AmountOrOverflow(more, price, token_price_usd_micro)
                  IN  (~less(more, sol_amount) /\ amount # None /\ larger # None) =>
                          ~less(larger[1], amount[1])
            /\ \A higher \in WideAnswers :
                  LET larger == AmountOrOverflow(sol_amount, higher, token_price_usd_micro)
                  IN  (~less(higher, price) /\ amount # None /\ larger # None) =>
                          ~less(larger[1], amount[1])

\* The tokens a successful attempt takes from the vault.
Delivered(attempt) == presale_state.token_vault - attempt.result.world.presale.token_vault

\* The accounts of a buy_with_sol at each wide oracle answer.
WidePurchases ==
    {[s EXCEPT !.feed.answer = I128(FALSE, answer)] :
        s \in {x \in OraclePurchases(clock) : x.feed = GenuineFeed(clock)},
        answer \in WideAnswers}

\* C27: the amount of buy_with_sol does not decrease when sol_amount grows or
\* when the oracle price grows, the other inputs fixed; and whenever the
\* product sol_amount * price * 10^6 * 10^8 exceeds 128 bits, or the quotient
\* exceeds u64, the call fails with Overflow and commits nothing, never
\* delivering a wrapped or truncated amount.
C27_MonotoneOrOverflow ==
    /\ AmountExactOrOverflow
    /\ \A a \in OracleAttempts, b \in OracleAttempts :
          (/\ a.buyer = b.buyer
           /\ a.result.err = "Ok" /\ b.result.err = "Ok"
           /\ \/ /\ a.supplied = b.supplied
                 /\ a.sol_amount <= b.sol_amount
              \/ /\ a.sol_amount = b.sol_amount
                 /\ a.supplied.feed.timestamp = b.supplied.feed.timestamp
                 /\ ~less(b.supplied.feed.answer.magnitude,
                          a.supplied.feed.answer.magnitude))
          => Delivered(a) <= Delivered(b)
    /\ \A buyer \in Buyers, sol_amount \in {1, 25, 30}, supplied \in WidePurchases :
          LET numerator == ExactNumerator(sol_amount, supplied.feed.answer.magnitude)
              denominator == ExactDenominator(presale_state.token_price_usd_micro)
          IN  (/\ presale_state.status = "Active"
               /\ presale_state.token_price_usd_micro > 0
               /\ \/ less(U128_MAX, numerator)
                  \/ less(U64_MAX, quotient(numerator, denominator)))
              => LET result == buy_with_sol(World, buyer, sol_amount, clock, supplied)
                 IN  /\ result.err = "PresaleError::Overflow"
                     /\ Commit(result, World) = World

\* 50 tokens are sold and the token price is 7 micro-USD: 25 lamports buy 7142
\* tokens at $0.02 and 11904 at $0.03333333, 30 lamports buy 8571 at $0.02, and
\* the call fails with Overflow at an answer of 10^22, where the quotient
\* exceeds u64, and at 10^30, where the product exceeds 128 bits.
C27_Witness ==
    /\ presale_state.status = "Active"
    /\ presale_state.total_tokens_sold = 50
    /\ presale_state.token_price_usd_micro = 7
    /\ \E a \in OracleAttempts, b \in OracleAttempts, c \in OracleAttempts :
          /\ a.sol_amount = 25 /\ b.sol_amount = 25 /\ c.sol_amount = 30
          /\ a.supplied.feed.answer.magnitude = digits_of(2000000)
          /\ b.supplied.feed.answer.magnitude = digits_of(3333333)
          /\ c.supplied = a.supplied
          /\ a.result.err = "Ok" /\ b.result.err = "Ok" /\ c.result.err = "Ok"
          /\ Delivered(a) = 7142 /\ Delivered(b) = 11904 /\ Delivered(c) = 8571
    /\ \E buyer \in Buyers, supplied \in WidePurchases :
          /\ supplied.feed.answer.magnitude = pow10(22)
          /\ ~less(U128_MAX, ExactNumerator(25, pow10(22)))
          /\ buy_with_sol(World, buyer, 25, clock, supplied).err = "PresaleError::Overflow"
    /\ \E buyer \in Buyers, supplied \in WidePurchases :
          /\ supplied.feed.answer.magnitude = pow10(30)
          /\ less(U128_MAX, ExactNumerator(25, pow10(30)))
          /\ buy_with_sol(World, buyer, 25, clock, supplied).err = "PresaleError::Overflow"

\* The feeds a caller may pass: any answer, decimals, owner and round time.
AnyFeeds ==
    [readable : {TRUE},
     answer : {I128(FALSE, digits_of(2000000)), I128(FALSE, << >>),
               I128(TRUE, digits_of(2000000))},
     decimals : {CHAINLINK_DECIMALS, 6},
     timestamp : RoundTimestamps(clock),
     owner : {CHAINLINK_PROGRAM_ID, Outsider}]

FeedAttempts ==
    {[buyer |-> x[1], sol_amount |-> x[2], supplied |-> x[3],
      result |-> buy_with_sol(World, x[1], x[2], clock, x[3])] :
        x \in Buyers \X {0, 25} \X
              [buyer_blacklist : {DefaultPubkey}, buyer_accounts_valid : {TRUE},
               vaults_valid : {TRUE}, payment_balance : {0}, lamports : {1000},
               feed : AnyFeeds]}

WrongDecimals(feed) == feed.decimals # 8
Stale(feed) == clock - feed.timestamp > 3600
NotChainlink(feed) == feed.owner # CHAINLINK_PROGRAM_ID

\* Everything buy_with_sol tests before it looks at the round is in order.
ReachesRound(attempt) ==
    /\ presale_state.status = "Active"
    /\ attempt.sol_amount > 0
    /\ attempt.supplied.lamports >= attempt.sol_amount
    /\ ~token_state.emergency_paused
    /\ ~buyer_blacklisted(World, attempt.supplied.buyer_blacklist)
    /\ attempt.supplied.feed.readable

\* C28, as the specification words it: buy_with_sol fails and commits nothing,
\* with InvalidPrice when the answer is <= 0, when the decimals differ from 8
\* and when the feed is not owned by the Chainlink program, and with
\* StalePrice when now - round.timestamp exceeds 3600.
C28_AlwaysNamedError ==
    \A attempt \in FeedAttempts :
        LET feed == attempt.supplied.feed
            invalid == /\ attempt.result.err = "PresaleError::InvalidPrice"
                       /\ Commit(attempt.result, World) = World
        IN  /\ AnswerNotPositive(feed) => invalid
            /\ WrongDecimals(feed) => invalid
            /\ NotChainlink(feed) => invalid
            /\ Stale(feed) =>
                  /\ attempt.result.err = "PresaleError::StalePrice"
                  /\ Commit(attempt.result, World) = World

\* C28: buy_with_sol fails, moving no funds and changing no totals, when the
\* oracle answer is <= 0, the feed decimals differ from 8, the feed is not
\* owned by the Chainlink program, or now - round.timestamp exceeds 3600
\* seconds. When everything the handler tests before the round is in order,
\* the error is that of the first failing test in the handler's order: answer
\* (InvalidPrice), decimals (InvalidPrice), age (StalePrice), owner
\* (InvalidPrice); when an earlier test fails, the error is that test's. A round
\* of age exactly 3600 is not stale.
C28_OracleFailures ==
    \A attempt \in FeedAttempts :
        LET feed == attempt.supplied.feed
            err == attempt.result.err
        IN  /\ (AnswerNotPositive(feed) \/ WrongDecimals(feed) \/ Stale(feed)
                    \/ NotChainlink(feed)) =>
                  /\ err # "Ok"
                  /\ Commit(attempt.result, World) = World
            /\ ~ReachesRound(attempt) =>
                  err \in {"PresaleError::PresaleNotActive", "PresaleError::InvalidAmount"}
            /\ ReachesRound(attempt) =>
                  /\ AnswerNotPositive(feed) => err = "PresaleError::InvalidPrice"
                  /\ (~AnswerNotPositive(feed) /\ WrongDecimals(feed)) =>
                        err = "PresaleError::InvalidPrice"
                  /\ (~AnswerNotPositive(feed) /\ ~WrongDecimals(feed) /\ Stale(feed)) =>
                        err = "PresaleError::StalePrice"
                  /\ (~AnswerNotPositive(feed) /\ ~WrongDecimals(feed) /\ ~Stale(feed)
                        /\ NotChainlink(feed)) =>
                        err = "PresaleError::InvalidPrice"
                  /\ (clock - feed.timestamp = 3600 /\ ~AnswerNotPositive(feed)
                        /\ ~WrongDecimals(feed) /\ ~NotChainlink(feed)) =>
                        err # "PresaleError::StalePrice"

\* 3601 seconds after a purchase of 50 tokens at a round of time 0, the sale is
\* Active: the same purchase fails with StalePrice at that round, with
\* InvalidPrice at a fresh round with answer 0, with a negative answer, with 6
\* decimals and with a foreign owner, and is accepted at a fresh genuine round.
C28_Witness ==
    /\ presale_state.status = "Active"
    /\ presale_state.total_tokens_sold = 50
    /\ presale_state.token_price_usd_micro = 1000
    /\ clock = 3601
    /\ \E attempt \in FeedAttempts :
          attempt.supplied.feed = GenuineFeed(clock) /\ attempt.result.err = "Ok"
    /\ \E attempt \in FeedAttempts :
          /\ attempt.supplied.feed = GenuineFeed(0)
          /\ ReachesRound(attempt)
          /\ attempt.result.err = "PresaleError::StalePrice"
    /\ \A bad \in {[GenuineFeed(clock) EXCEPT !.answer = I128(FALSE, << >>)],
                    [GenuineFeed(clock) EXCEPT !.answer = I128(TRUE, digits_of(2000000))],
                    [GenuineFeed(clock) EXCEPT !.decimals = 6],
                    [GenuineFeed(clock) EXCEPT !.owner = Outsider]} :
          \E attempt \in FeedAttempts :
              /\ attempt.supplied.feed = bad
              /\ ReachesRound(attempt)
              /\ attempt.result.err = "PresaleError::InvalidPrice"

\* The mint, burn and transfer calls anyone may attempt in the current state.
MintAttempts ==
    {[call |-> "mint_tokens", signer |-> x[1],
      result |-> mint_tokens(World, x[1], x[2], x[3], x[4])] :
        x \in TokenCallers \X TokenHolders \X {0, 100} \X MintAccounts}

BurnAttempts ==
    {[call |-> "burn_tokens", signer |-> x[1],
      result |-> burn_tokens(World, x[1], x[2], x[3], x[4])] :
        x \in TokenCallers \X TokenHolders \X {0, 50} \X BurnAccounts}

TransferAttempts ==
    {[call |-> "transfer_tokens", signer |-> x[1],
      result |-> transfer_tokens(World, x[1], x[2], x[3], x[4], clock, x[5])] :
        x \in TokenHolders \X TokenHolders \X TokenHolders \X {0, 10, 50}
              \X TransferAccounts}

TokenAttempts == MintAttempts \cup BurnAttempts \cup TransferAttempts

\* What the token operations move and count.
Holdings(token) == <<token.balances, token.current_supply, token.sell_tracker>>

\* C29, as the specification words it: while emergency_paused is true every
\* transfer_tokens, mint_tokens and burn_tokens call fails with
\* EmergencyPaused and changes no balance, supply or sell tracker.
C29_AlwaysEmergencyPaused ==
    token_state.emergency_paused =>
        \A attempt \in TokenAttempts :
            /\ attempt.result.err = "TokenError::EmergencyPaused"
            /\ Holdings(Commit(attempt.result, World).token) = Holdings(token_state)

\* C29: while emergency_paused is true, every transfer_tokens call, and every
\* mint_tokens and burn_tokens call signed by the token authority, fails with
\* EmergencyPaused; a mint_tokens or burn_tokens signed by anyone else fails
\* with Unauthorized, the account constraint answering before the handler; no
\* call commits anything, and no step taken while paused changes a balance,
\* current_supply or a sell tracker.
C29_PausedNothingMoves ==
    /\ [](token_state.emergency_paused =>
            \A attempt \in TokenAttempts :
                /\ Commit(attempt.result, World) = World
                /\ attempt.result.err =
                      IF attempt.call = "transfer_tokens"
                            \/ attempt.signer = token_state.authority
                      THEN "TokenError::EmergencyPaused"
                      ELSE "TokenError::Unauthorized")
    /\ [][token_state.emergency_paused =>
              Holdings(token_state') = Holdings(token_state)]_vars

\* The token is paused with 200 tokens minted, 10 of them sold to the pool and
\* tracked: a mint, a burn and a transfer that would succeed without the pause
\* fail with EmergencyPaused.
C29_Witness ==
    /\ token_state.emergency_paused
    /\ token_state.current_supply = 200
    /\ token_state.sell_tracker[Buyer1].total_sold_24h = 10
    /\ \E governance \in TokenCallers, to \in TokenHolders, supplied \in MintAccounts :
          /\ mint_tokens(World, governance, to, 100, supplied).err
                = "TokenError::EmergencyPaused"
          /\ mint_tokens([World EXCEPT !.token.emergency_paused = FALSE],
                         governance, to, 100, supplied).err = "Ok"
    /\ \E governance \in TokenCallers, from \in TokenHolders, supplied \in BurnAccounts :
          /\ burn_tokens(World, governance, from, 50, supplied).err
                = "TokenError::EmergencyPaused"
          /\ burn_tokens([World EXCEPT !.token.emergency_paused = FALSE],
                         governance, from, 50, supplied).err = "Ok"
    /\ \E from \in TokenHolders, to \in TokenHolders, supplied \in TransferAccounts :
          /\ transfer_tokens(World, from, from, to, 10, clock, supplied).err
                = "TokenError::EmergencyPaused"
          /\ transfer_tokens([World EXCEPT !.token.emergency_paused = FALSE],
                             from, from, to, 10, clock, supplied).err = "Ok"

\* The set_governance calls anyone may attempt in the current state.
SetGovernanceAttempts ==
    {[authority |-> x[1], new_authority |-> x[2],
      result |-> set_governance(World, x[1], x[2], clock)] :
        x \in HandoverCallers \X ProposedAuthorities}

\* The calls of the token program beside set_governance.
CallsBesideSetGovernance ==
    {propose_governance_change(World, x[1], x[2], clock) :
        x \in HandoverCallers \X ProposedAuthorities}
    \cup {set_emergency_pause(World, x[1], x[2]) : x \in HandoverCallers \X BOOLEAN}
    \cup {set_bridge_address(World, x[1], x[2]) : x \in HandoverCallers \X ProposedAuthorities}
    \cup {mint_tokens(World, x[1], x[2], 100, x[3]) :
            x \in HandoverCallers \X TokenHolders \X MintAccounts}
    \cup {burn_tokens(World, x[1], x[2], 50, x[3]) :
            x \in HandoverCallers \X TokenHolders \X BurnAccounts}
    \cup {transfer_tokens(World, x[1], x[1], x[2], 10, clock, x[3]) :
            x \in TokenHolders \X TokenHolders \X TransferAccounts}

\* C30: the token authority changes only by the two-step timelocked path.
\* set_governance(new) succeeds only when its signer is the current authority,
\* new is the pending_governance and at least 604,800 seconds have passed since
\* governance_change_time; both are written only by propose_governance_change,
\* which overwrites them with its argument and the time of the call, so they
\* are those of the latest proposal. On success the authority is new and both
\* fields are cleared (also when new is the authority itself), after which no
\* set_governance succeeds until a new proposal; no other call changes the
\* authority.
C30_TimelockedHandover ==
    /\ [](\A attempt \in SetGovernanceAttempts :
            attempt.result.err = "Ok" =>
                /\ attempt.authority = token_state.authority
                /\ token_state.pending_governance = Some(attempt.new_authority)
                /\ token_state.governance_change_time # None
                /\ clock - token_state.governance_change_time[1] >= 604800
                /\ attempt.result.world.token.authority = attempt.new_authority
                /\ attempt.result.world.token.pending_governance = None
                /\ attempt.result.world.token.governance_change_time = None
                /\ \A again \in HandoverCallers \X ProposedAuthorities :
                      set_governance(attempt.result.world, again[1], again[2], clock).err
                          # "Ok")
    /\ [](\A result \in CallsBesideSetGovernance :
            Commit(result, World).token.authority = token_state.authority)
    /\ [][token_state'.authority # token_state.authority =>
              /\ token_state.pending_governance = Some(token_state'.authority)
              /\ token_state.governance_change_time # None
              /\ clock - token_state.governance_change_time[1] >= 604800
              /\ token_state'.pending_governance = None
              /\ token_state'.governance_change_time = None]_vars
    /\ [][(token_state'.authority = token_state.authority
            /\ <<token_state'.pending_governance, token_state'.governance_change_time>>
                  # <<token_state.pending_governance, token_state.governance_change_time>>)
              => \/ /\ token_state'.pending_governance # None
                    /\ token_state'.pending_governance[1] # DefaultPubkey
                    /\ token_state'.governance_change_time = Some(clock)
                 \/ /\ token_state.pending_governance = Some(token_state.authority)
                    /\ clock - token_state.governance_change_time[1] >= 604800
                    /\ token_state'.pending_governance = None
                    /\ token_state'.governance_change_time = None]_vars

\* The authority has passed from the governance PDA to Admin, 604,800 seconds
\* after the proposal at time 0; the proposal is spent, and the same
\* set_governance by the new authority is refused.
C30_Witness ==
    /\ token_state.authority = Admin
    /\ token_state.pending_governance = None
    /\ token_state.governance_change_time = None
    /\ clock = 604800
    /\ set_governance(World, Admin, Admin, clock).err = "TokenError::Unauthorized"
    /\ set_governance(World, GovernancePda, Admin, clock).err = "TokenError::Unauthorized"

\* The transfers a caller can submit in the current state: <<authority, from,
\* to, amount, supplied accounts>>.
SellAttempts == TokenHolders \X TokenHolders \X TokenHolders \X SellAmounts \X SellAccounts

SellOutcome(x) == transfer_tokens(World, x[1], x[2], x[3], x[4], clock, x[5])

\* The recipient is a marked liquidity pool and the sender has no exemption.
Limited(x) ==
    /\ x[5].liquidity_pool # DefaultPubkey
    /\ token_state.liquidity_pool[x[5].liquidity_pool].is_set
    /\ ~(x[5].no_sell_limit # DefaultPubkey
            /\ token_state.no_sell_limit[x[5].no_sell_limit].is_set)

\* The window of the signer's tracker has run out.
WindowOver(x) == clock - token_state.sell_tracker[x[1]].last_reset > 86400

\* What the signer has sold in the current window.
SoldInWindow(x) ==
    IF token_state.sell_tracker[x[1]].account = DefaultPubkey \/ WindowOver(x)
    THEN 0
    ELSE token_state.sell_tracker[x[1]].total_sold_24h

\* floor(sender balance * sell_limit_percent / 100)
TenPercent(x) == (token_state.balances[x[2]] * token_state.sell_limit_percent) \div 100

WithinSellLimit(x) == SoldInWindow(x) + x[4] <= TenPercent(x)

\* The checks of transfer_tokens that come before the sell limit pass.
ReachesSellLimit(x) ==
    /\ ~token_state.emergency_paused
    /\ x[5].accounts_valid
    /\ \A key \in {x[5].sender_blacklist, x[5].recipient_blacklist} :
            key = DefaultPubkey \/ ~token_state.blacklist[key].is_set
    /\ \A key \in {x[5].sender_restricted, x[5].recipient_restricted} :
            key = DefaultPubkey \/ ~token_state.restricted[key].is_set
    /\ (token_state.whitelist_mode => x[5].whitelisted)

OpenApprovers(id) ==
    {governance_state.signers[i] : i \in 1..Len(governance_state.signers)}
        \ {transactions[id].approvals[i] : i \in 1..Len(transactions[id].approvals)}

\* C32: an execute_transaction call on a Pending transaction that fails after
\* the status check (cooldown not expired, insufficient approvals, target
\* validation, or a failing call into the token program) has written Executed
\* to the transaction inside the call, and commits nothing: afterwards the
\* transaction is Pending and every account is as before. A later call on the
\* same transaction no longer fails for the condition that has gone: not
\* with CooldownNotExpired from execute_after on, not with
\* InsufficientApprovals once an approval has brought the count to the
\* threshold, not with InvalidAccount once the target named in the data is
\* supplied; and a call succeeds exactly when the cooldown is over, the quorum
\* is met and the dispatched call succeeds.
C32_FailedExecuteStaysPending ==
    \A id \in DOMAIN transactions, now \in Instants, supplied \in SuppliedAccounts :
        LET tx == transactions[id]
            result == execute_transaction(World, id, id, now, supplied)
            after == Commit(result, World)
            marked == [World EXCEPT !.txs[id].status = "Executed"]
        IN  tx.status = "Pending" =>
            /\ result.err # "Ok" =>
                  /\ result.world.txs[id].status = "Executed"
                  /\ after.txs[id].status = "Pending"
                  /\ after = World
            /\ result.err = "CooldownNotExpired" =>
                  /\ now < tx.execute_after
                  /\ \A later \in {tx.execute_after, tx.execute_after + MAX_COOLDOWN_SECONDS} :
                        execute_transaction(after, id, id, later, supplied).err
                            # "CooldownNotExpired"
            /\ result.err = "InsufficientApprovals" =>
                  /\ tx.approval_count < governance_state.required_approvals
                  /\ \A approver \in OpenApprovers(id) :
                        LET approved == approve_transaction(after, id, id, approver) IN
                        /\ approved.err = "Ok"
                        /\ approved.world.txs[id].approval_count
                                >= governance_state.required_approvals
                           => execute_transaction(approved.world, id, id, now, supplied).err
                                # "InsufficientApprovals"
            /\ (result.err = "InvalidAccount" /\ tx.tx_type \in FlagKinds) =>
                  execute_transaction(after, id, id, now,
                        [target_account |-> tx.target, pool_address |-> tx.target]).err
                      # "InvalidAccount"
            /\ result.err = "Ok" <=>
                  /\ now >= tx.execute_after
                  /\ tx.approval_count >= governance_state.required_approvals
                  /\ execute_dispatch(marked, marked.txs[id], supplied).err = "Ok"

\* A transaction with quorum is refused before its cooldown is over, stays
\* Pending, and the same call succeeds at execute_after.
C32_Witness ==
    \E id \in DOMAIN transactions, supplied \in SuppliedAccounts :
        /\ transactions[id].status = "Pending"
        /\ clock < transactions[id].execute_after
        /\ execute_transaction(World, id, id, clock, supplied).err = "CooldownNotExpired"
        /\ execute_transaction(World, id, id, clock, supplied).world.txs[id].status = "Executed"
        /\ execute_transaction(Commit(execute_transaction(World, id, id, clock, supplied), World),
                               id, id, transactions[id].execute_after, supplied).err = "Ok"

\* The values the direct setters are called with, and those in range.
DirectRequired == 0..(MAX_SIGNERS + 1)
DirectPeriods ==
    {-1, MIN_COOLDOWN_SECONDS - 1, MIN_COOLDOWN_SECONDS, 2 * MIN_COOLDOWN_SECONDS,
     MAX_COOLDOWN_SECONDS}
RequiredInRange(required) ==
    MIN_REQUIRED_APPROVALS <= required /\ required <= Len(governance_state.signers)
PeriodInRange(period) ==
    MIN_COOLDOWN_SECONDS <= period /\ period <= MAX_COOLDOWN_SECONDS

\* C33: every call of set_required_approvals and set_cooldown_period by
\* GovernanceState.authority with an in-range value succeeds at once, with no
\* transaction queued, and writes the value; every call by another identity
\* fails with Unauthorized.
C33_AuthorityAlone ==
    governance_state.initialized =>
        \A caller \in Callers, required \in DirectRequired, period \in DirectPeriods :
            LET approvals == set_required_approvals(World, caller, required)
                cooldown == set_cooldown_period(World, caller, period)
            IN  /\ caller # governance_state.authority =>
                      approvals.err = "Unauthorized" /\ cooldown.err = "Unauthorized"
                /\ caller = governance_state.authority =>
                      /\ RequiredInRange(required) =>
                            /\ approvals.err = "Ok"
                            /\ approvals.world =
                                  [World EXCEPT !.gov.required_approvals = required]
                      /\ PeriodInRange(period) =>
                            /\ cooldown.err = "Ok"
                            /\ cooldown.world = [World EXCEPT !.gov.cooldown_period = period]

\* Pending, with quorum under the threshold now in force.
HasQuorum(id) ==
    /\ transactions[id].status = "Pending"
    /\ transactions[id].approval_count >= governance_state.required_approvals

\* Instants from execute_after on: the first, the next, one and many maximum
\* cooldowns later, and some sixty years later.
LaterInstants(tx) ==
    {tx.execute_after, tx.execute_after + 1, tx.execute_after + MAX_COOLDOWN_SECONDS,
     tx.execute_after + 100 * MAX_COOLDOWN_SECONDS, 2000000000}

\* C34: a Pending transaction with approval_count >= required_approvals is
\* executable at every clock time >= execute_after, however late: an
\* execute_transaction call at any such time has the outcome of the call at
\* execute_after and never fails with CooldownNotExpired, InsufficientApprovals
\* or TransactionNotPending. A transaction that is executable stops being so
\* only by being executed or rejected or by required_approvals being raised
\* above its approval count, never by the clock advancing; execute_after never
\* changes.
C34_NeverExpires ==
    /\ [](\A id \in DOMAIN transactions, supplied \in SuppliedAccounts :
            HasQuorum(id) =>
                \A now \in LaterInstants(transactions[id])
                             \cup {t \in {clock} : t >= transactions[id].execute_after} :
                    LET result == execute_transaction(World, id, id, now, supplied) IN
                    /\ result = execute_transaction(World, id, id,
                                                    transactions[id].execute_after, supplied)
                    /\ result.err \notin {"CooldownNotExpired", "InsufficientApprovals",
                                          "TransactionNotPending"})
    /\ [][\A id \in DOMAIN transactions :
            /\ transactions'[id].execute_after = transactions[id].execute_after
            /\ (HasQuorum(id) /\ clock >= transactions[id].execute_after) =>
                  \/ /\ transactions'[id].status = "Pending"
                     /\ transactions'[id].approval_count >= governance_state'.required_approvals
                     /\ clock' >= transactions'[id].execute_after
                  \/ transactions'[id].status \in {"Executed", "Rejected"}
                  \/ /\ governance_state'.required_approvals
                            > governance_state.required_approvals
                     /\ governance_state'.required_approvals
                            > transactions[id].approval_count]_vars

\* A transaction with quorum has been left Pending for a whole maximum
\* cooldown past execute_after, and an execute call succeeds on it.
C34_Witness ==
    \E id \in DOMAIN transactions, supplied \in SuppliedAccounts :
        /\ HasQuorum(id)
        /\ clock >= transactions[id].execute_after + MAX_COOLDOWN_SECONDS
        /\ execute_transaction(World, id, id, clock, supplied).err = "Ok"

\* C35: once the token program is set, emergency_pause called by any one of
\* the signers succeeds at once, whatever the approvals and the clock, and
\* sets the token's emergency_paused to true, changing nothing else; with the
\* token authority being the governance PDA, emergency_paused goes from true
\* to false only in a step that executes a Pending Unpause transaction whose
\* approval_count is at least required_approvals and whose execute_after has
\* been reached.
C35_PauseByOneUnpauseByQuorum ==
    /\ [](token_state.authority = GovernancePda
            /\ ((governance_state.initialized /\ governance_state.token_program_set) =>
                  \A i \in 1..Len(governance_state.signers) :
                      LET result == emergency_pause(World, governance_state.signers[i]) IN
                      /\ result.err = "Ok"
                      /\ result.world = [World EXCEPT !.token.emergency_paused = TRUE]))
    /\ [][(token_state.emergency_paused /\ ~token_state'.emergency_paused) =>
            \E id \in DOMAIN transactions :
                /\ transactions[id].tx_type = "Unpause"
                /\ transactions[id].status = "Pending"
                /\ transactions'[id].status = "Executed"
                /\ transactions[id].approval_count >= governance_state.required_approvals
                /\ transactions[id].approval_count >= MIN_REQUIRED_APPROVALS
                /\ clock >= transactions[id].execute_after
                /\ clock >= transactions[id].timestamp + MIN_COOLDOWN_SECONDS]_vars

\* The token is paused, and an Unpause transaction with quorum whose cooldown
\* is over is about to lift the pause.
C35_Witness ==
    \E id \in DOMAIN transactions, supplied \in SuppliedAccounts :
        /\ token_state.emergency_paused
        /\ transactions[id].tx_type = "Unpause"
        /\ transactions[id].status = "Pending"
        /\ execute_transaction(World, id, id, clock, supplied).err = "Ok"
        /\ ~execute_transaction(World, id, id, clock, supplied).world.token.emergency_paused

\* C36: counter and timestamp arithmetic in the queue never wraps. Every
\* queue call that succeeds stores next_transaction_id + 1 and timestamp +
\* cooldown_period as the exact sums, and every stored transaction has
\* execute_after = timestamp + cooldown_period >= timestamp + 1800.
C36_QueueNeverWraps ==
    /\ \A id \in DOMAIN transactions :
          LET tx == transactions[id] IN
          /\ ~tx.execute_after.negative
          /\ tx.execute_after.magnitude =
                sum(tx.timestamp.magnitude, governance_state.cooldown_period.magnitude)
          /\ ~less(tx.execute_after.magnitude,
                   sum(tx.timestamp.magnitude, digits_of(MIN_COOLDOWN_SECONDS)))
          /\ less(id, governance_state.next_transaction_id)
    /\ \A result \in queue_unpause_at_width(World, SignerA, clock) :
          result.err = "Ok" =>
              result.world.gov.next_transaction_id =
                  sum(governance_state.next_transaction_id, <<1>>)

\* C37: in every state every address in a transaction's approvals is one of
\* GovernanceState.signers, so approval_count <= len(signers) <= MAX_SIGNERS
\* = 10 and the u8 approval_count stays below 256; the signers never change
\* once initialize has run; and a transaction enters the queue with
\* approval_count 0 and no approvals, the initiator not being counted.
C37_ApprovalsAreSigners ==
    /\ [](/\ Len(governance_state.signers) <= MAX_SIGNERS
          /\ \A id \in DOMAIN transactions :
                /\ \A i \in 1..Len(transactions[id].approvals) :
                      \E j \in 1..Len(governance_state.signers) :
                          governance_state.signers[j] = transactions[id].approvals[i]
                /\ transactions[id].approval_count <= Len(governance_state.signers)
                /\ transactions[id].approval_count < 256)
    /\ [][/\ governance_state.initialized =>
                governance_state'.signers = governance_state.signers
          /\ \A id \in DOMAIN transactions' \ DOMAIN transactions :
                /\ transactions'[id].approval_count = 0
                /\ transactions'[id].approvals = << >>]_vars

\* Two of the three signers have approved a transaction its initiator queued.
C37_Witness ==
    \E id \in DOMAIN transactions :
        /\ Len(governance_state.signers) = 3
        /\ transactions[id].initiator = SignerA
        /\ transactions[id].approval_count = 2
        /\ transactions[id].approvals = <<SignerB, SignerA>>

\* Reasons of 1 byte, 3 bytes and MAX_REASON_LEN bytes.
GivenReasons == {<<120>>, <<98, 97, 100>>, [i \in 1..MAX_REASON_LEN |-> 120]}

\* C38: reject_transaction by any one signer, with a reason of 1 to 256 bytes,
\* succeeds on every Pending transaction, also on one that has
\* approval_count >= required_approvals and whose cooldown has expired, and
\* makes it Rejected; on the outcome every execute and approve call fails with
\* TransactionNotPending at every time, and a Rejected transaction stays
\* Rejected with its effect never applied. When a reject and an execute meet
\* on the same Pending transaction, the one committed first decides: after the
\* execute the reject fails with TransactionNotPending, after the reject the
\* execute does, so exactly one terminal state is reached.
C38_SingleSignerVeto ==
    /\ [](\A id \in DOMAIN transactions, reason \in GivenReasons,
              i \in 1..Len(governance_state.signers), supplied \in SuppliedAccounts :
            LET signer == governance_state.signers[i]
                rejected == reject_transaction(World, id, id, signer, reason)
                executed == execute_transaction(World, id, id, clock, supplied)
            IN  transactions[id].status = "Pending" =>
                /\ rejected.err = "Ok"
                /\ rejected.world =
                      [World EXCEPT !.txs[id].status = "Rejected",
                                    !.txs[id].rejection_reason = reason,
                                    !.txs[id].rejector = signer]
                /\ \A now \in LaterInstants(transactions[id]) \cup {clock} :
                      execute_transaction(rejected.world, id, id, now, supplied).err
                          = "TransactionNotPending"
                /\ \A j \in 1..Len(governance_state.signers) :
                      approve_transaction(rejected.world, id, id,
                                          governance_state.signers[j]).err
                          = "TransactionNotPending"
                /\ executed.err = "Ok" =>
                      /\ executed.world.txs[id].status = "Executed"
                      /\ reject_transaction(executed.world, id, id, signer, reason).err
                            = "TransactionNotPending")
    /\ [][\A id \in DOMAIN transactions :
            transactions[id].status = "Rejected" =>
                /\ transactions'[id] = transactions[id]
                /\ applied'[id] = 0]_vars

\* A transaction with quorum whose cooldown has expired is still Pending:
\* SignerC, who has not approved it, can reject it, and it can be executed.
C38_Witness ==
    \E id \in DOMAIN transactions, supplied \in SuppliedAccounts :
        /\ HasQuorum(id)
        /\ clock >= transactions[id].execute_after
        /\ reject_transaction(World, id, id, SignerC, <<98, 97, 100>>).err = "Ok"
        /\ execute_transaction(World, id, id, clock, supplied).err = "Ok"

\* C39: in every reachable presale state with max_presale_cap > 0,
\* total_tokens_sold <= max_presale_cap, under any interleaving of buy,
\* buy_with_sol, update_presale_cap and update_presale_limits.
C39_SoldWithinCap ==
    presale_state.max_presale_cap > 0 =>
        presale_state.total_tokens_sold <= presale_state.max_presale_cap

\* The sum of total_purchased over the UserPurchase records of `buyers`.
RECURSIVE SumPurchased(_, _)
SumPurchased(presale, buyers) ==
    IF buyers = {} THEN 0
    ELSE LET b == CHOOSE x \in buyers : TRUE
         IN  presale.user_purchase[b].total_purchased
                + SumPurchased(presale, buyers \ {b})

\* The calls of the presale program that are not purchases, with the
\* withdrawals of SOL and of unsold tokens and the price update.
CallsBesideTotals ==
    CallsBesidePurchase
    \cup {withdraw_to_treasury(World, x[1], x[2]) : x \in SaleCallers \X WithdrawAmounts}
    \cup {withdraw_sol_to_treasury(World, x[1], x[2], x[3]) :
            x \in SaleCallers \X AccountInputs \X WithdrawAmounts}
    \cup {withdraw_unsold_tokens(World, x[1], x[2], x[3]) :
            x \in SaleCallers \X UnsoldAmounts \X BOOLEAN}
    \cup {set_token_price_usd(World, x[1], x[2]) : x \in SaleCallers \X TokenPrices}

\* C40: in every reachable presale state total_tokens_sold equals the sum of
\* total_purchased over all UserPurchase records; a step that changes either
\* is a successful buy or buy_with_sol, which adds one and the same positive
\* token amount to total_tokens_sold and to the buyer's total_purchased and
\* leaves the other records alone; every other call (the three withdrawals,
\* the treasury, cap, per-user and price updates, the status changes) leaves
\* total_tokens_sold and every record as they are.
C40_SoldIsSumOfPurchases ==
    /\ [](presale_state.total_tokens_sold = SumPurchased(presale_state, Buyers))
    /\ [](\A result \in CallsBesideTotals :
            LET after == Commit(result, World).presale IN
            /\ after.total_tokens_sold = presale_state.total_tokens_sold
            /\ after.user_purchase = presale_state.user_purchase)
    /\ [][(\/ presale_state'.total_tokens_sold # presale_state.total_tokens_sold
           \/ presale_state'.user_purchase # presale_state.user_purchase) =>
            LET tokens == presale_state'.total_tokens_sold
                            - presale_state.total_tokens_sold
            IN  /\ tokens > 0
                /\ \E b \in Buyers :
                      /\ presale_state'.user_purchase[b] =
                            [buyer |-> b,
                             total_purchased |->
                                presale_state.user_purchase[b].total_purchased + tokens]
                      /\ \A other \in Buyers \ {b} :
                            presale_state'.user_purchase[other]
                                = presale_state.user_purchase[other]
                      /\ \E supplied \in SuppliedPurchases(clock) :
                            \/ \E amount \in BuyAmounts :
                                  LET bought == buy(World, b, amount, supplied) IN
                                  /\ bought.err = "Ok"
                                  /\ presale_state' = bought.world.presale
                            \/ \E sol_amount \in SolAmounts :
                                  LET bought == buy_with_sol(World, b, sol_amount,
                                                             clock, supplied)
                                  IN  /\ bought.err = "Ok"
                                      /\ presale_state' = bought.world.presale]_vars

\* Both buyers have bought, one of them more than once and on both paths, and
\* tokens and SOL have been withdrawn from the vaults since.
C40_Witness ==
    /\ \A b \in Buyers : presale_state.user_purchase[b].total_purchased > 0
    /\ presale_state.total_tokens_sold > presale_state.total_raised
    /\ presale_state.vault_balance > 0
    /\ presale_state.token_vault + presale_state.total_tokens_sold < TokenVaultAtStart
    /\ presale_state.sol_vault = 0
    /\ presale_state.max_presale_cap > 0

====
